---- MODULE Spec2Model ----
(***************************************************************************)
(* Turn orchestration of the Socializer chat agent: the LangGraph graph    *)
(* built by AiChatagent.build_graph (chatbot node, route_tools, tools      *)
(* node BasicToolNode) in src/ai_chatagent.py.                             *)
(*                                                                         *)
(* Text is modelled as a sequence of tokens, so that startswith, `in` and  *)
(* truthiness are computed on the text and f-strings are concatenations.   *)
(***************************************************************************)
EXTENDS Integers, Sequences, FiniteSets, TLC

\* ------------------------------------------------------------------ bounds
\* supersteps (node executions) explored for a turn with a free model
MaxSupersteps == 4
\* call requests in one model response
MaxBatch == 2
\* distinct argument values the model uses for tavily_search
MaxArg == 2
\* call requests the model makes in one turn
MaxRequests == 3

\* plain fields, and list elements, of the largest tool result
MaxFields == 6

\* characters of the longest content given to the fallback generator
MaxContent == 4
\* messages of the longest history given to the fallback generator
MaxHistory == 4

\* process_message coroutines that run at the same time
MaxCoroutines == 3

\* langgraph's default recursion_limit: build_graph compiles the graph and
\* the callers pass a config without recursion_limit, so a run that has not
\* reached END after 25 supersteps is stopped with GraphRecursionError
RecursionLimit == 25

VARIABLES
    messages,      \* State.messages of the running graph (the window)
    pc,            \* AWAIT_INPUT | MODEL_INVOKE (chatbot node is next) |
                   \* TOOL_DISPATCH (tools node is next) | DONE (END) | ABORTED
    steps,         \* supersteps executed in this run of the graph
    executed,      \* handler invocations made by BasicToolNode, in order
    requested,     \* every call request the model made in this turn, in order
    blocked,       \* call ids of the requests the duplicate check blocked
    verdict,       \* which return statement of chatbot produced the last result
    culprit,       \* capability name the last loop/duplicate detection named
    lastResponse,  \* what llm_with_tools.invoke returned in the last chatbot step
    invokes,       \* number of llm_with_tools.invoke calls in this turn
    seenLen,       \* length of the window at the last llm_with_tools.invoke
    dispatches,    \* number of executions of the tools node in this turn
    nextId,        \* next fresh call id the model provider hands out
    chat_state,    \* ChatState.messages of the session served by app/chat_agent.py
    chat_input,    \* chat_input["messages"] built by process_message for the model
    wpc,           \* position of app/chat_agent.process_message: idle | agent | disconnected
    state,         \* State of the core ChatAgent of the session (chat_agent/core)
    clock,         \* datetime.now(): the next timestamp
    input_data,    \* argument of Tool.execute
    handler_log,   \* the validated inputs Tool._execute was called with, in order
    execute_out,   \* what Tool.execute returned or raised
    tpc,           \* position of Tool.execute: call | returned
    fmt_result,    \* tool_result given to GeminiResponseHandler.format_tool_result
    fmt_name,      \* tool_name given to it
    formatted,     \* the text format_tool_result returned
    fpc,           \* position of format_tool_result: call | returned
    candidate_message, \* the AIMessage given to create_response_with_fallback
    fallback_window,   \* the message history given to it
    recovered,     \* the AIMessage create_response_with_fallback returned
    rpc,           \* position of create_response_with_fallback: call | returned
    agents,        \* the State of the ChatAgent of every session key
    turns,         \* the process_message coroutines: session key and position
    save_calls,    \* number of dm.save_messages calls made for the session
    save_failed,   \* whether the last dm.save_messages call raised
    restored,      \* the State the last State.from_dict call returned
    spc,           \* the last operation made on the State of the core ChatAgent
    agent_out,     \* what the last ChatAgent.process_message call returned or raised
    service_agents,       \* ChatAgentService.agents: the State of the agent of each user id
    service_last,         \* the last call of ChatAgentService.process_message
    conversation_history, \* conversation_history of app/chat_agent.py: id -> messages
    returned       \* what app/chat_agent.process_message returned last

\* the variables of the graph run
gvars == <<messages, pc, steps, executed, requested, blocked, verdict, culprit,
           lastResponse, invokes, seenLen, dispatches, nextId>>

\* the variables of the session windows
wvars == <<chat_state, chat_input, wpc, state, clock>>

\* the variables of Tool.execute
tvars == <<input_data, handler_log, execute_out, tpc>>

\* the variables of the result formatter
fvars == <<fmt_result, fmt_name, formatted, fpc>>

\* the variables of the fallback generator
rvars == <<candidate_message, fallback_window, recovered, rpc>>

\* the variables of the keyed sessions
svars == <<agents, turns>>

\* the variables of the response handler, the tool base class and the sessions
hvars == <<tvars, fvars, rvars, svars>>

\* the variables of persistence and of the result returned
pvars == <<save_calls, save_failed, returned, restored, spc, agent_out>>

\* the variables of the session stores
kvars == <<service_agents, service_last, conversation_history>>

vars == <<gvars, wvars, hvars, pvars, kvars>>

Last(s) == s[Len(s)]

Max(a, b) == IF a >= b THEN a ELSE b

Min(a, b) == IF a <= b THEN a ELSE b

\* ------------------------------------------------------------------ text
\* str.startswith
startswith(text, tok) == Len(text) >= 1 /\ text[1] = tok

\* `tok in text`
contains(text, tok) == \E i \in 1..Len(text) : text[i] = tok

\* truthiness of a str (None and "" are both falsy)
truthy(text) == text # <<>>

\* json.dumps({"error": msg})
json_error(msg) == <<"{", "\"error\":">> \o msg \o <<"}">>

\* content of a ToolMessage that reports a failure
is_error(text) == startswith(text, "{") /\ contains(text, "\"error\":")

\* ------------------------------------------------------------------ data
NoId == [src |-> "none", n |-> 0, data |-> <<>>]

\* id the model provider gives to a call request
LlmId(n) == [src |-> "call", n |-> n, data |-> <<>>]

\* an argument map is the ordered list of its items (a dict keeps insertion order)
ArgItem(key, num, text) == [k |-> key, n |-> num, s |-> text]

\* str(args): the items rendered in insertion order
str(args) == [i \in 1..Len(args) |-> <<args[i].k, args[i].n, args[i].s>>]

HumanMessage(text) ==
    [type |-> "human", content |-> text, tool_calls |-> <<>>,
     tool_call_id |-> NoId, name |-> ""]

AIMessage(text, calls) ==
    [type |-> "ai", content |-> text, tool_calls |-> calls,
     tool_call_id |-> NoId, name |-> ""]

ToolMessage(text, tool_name, call_id) ==
    [type |-> "tool", content |-> text, tool_calls |-> <<>>,
     tool_call_id |-> call_id, name |-> tool_name]

\* module-level `tools` list, in order; BasicToolNode.tools_by_name keys
tools_by_name ==
    <<"tavily_search", "recall_last_conversation", "skill_evaluator",
      "user_preference", "life_event", "clarify_communication", "format_output">>

registered(tool_name) == \E i \in 1..Len(tools_by_name) : tools_by_name[i] = tool_name

NEVER_LOOP_BLOCK == {"format_output", "clarify_communication"}

NEVER_BLOCK_TOOLS == {"format_output", "clarify_communication"}

\* canned texts of chatbot
INVALID_STATE_TEXT == <<"I couldn't process your message. Please try again.">>
LOOP_STOP_TEXT == <<"I've already searched for that information. Based on the results I found, let me provide you with the answer.">>
EARLIER_STOP_TEXT == <<"I've already searched for that information. Based on the results I found earlier, let me provide you with the answer.">>
SEARCH_STOP_TEXT == <<"I've already searched for this information. Based on the search results above, I can answer your question.">>
REDIRECT_TEXT == <<"I already have this information. Let me provide it to you based on my previous search.">>
AUTH_ERROR_TEXT == <<"Authentication error. Please try logging in again.">>
TIMEOUT_ERROR_TEXT == <<"The request timed out. Please try again.">>
CONNECTION_ERROR_TEXT == <<"Connection error. Please check your internet connection and try again.">>
GENERIC_ERROR_TEXT == <<"I encountered an error while processing your request. Please try again or rephrase your question.">>

\* ------------------------------------------------------------------ chatbot
\* (tool_name, str(tool_args)): the identity the duplicate checks compare
call_signature(tc) == <<tc.name, str(tc.args)>>

\* index of the most recent HumanMessage, 0 when there is none (-1 in the source)
last_human_index(msgs) ==
    LET H == {i \in 1..Len(msgs) : msgs[i].type = "human"}
    IN  IF H = {} THEN 0 ELSE CHOOSE i \in H : \A j \in H : j <= i

\* the call requests carried by a list of messages, flattened in order
RECURSIVE calls_of(_)
calls_of(msgs) ==
    IF msgs = <<>> THEN <<>> ELSE Head(msgs).tool_calls \o calls_of(Tail(msgs))

\* first loop check: messages[last_human_index:] or messages[-6:]
messages_to_check(msgs) ==
    LET h == last_human_index(msgs)
    IN  IF h >= 1 THEN SubSeq(msgs, h, Len(msgs))
        ELSE SubSeq(msgs, Max(1, Len(msgs) - 5), Len(msgs))

\* tool_calls_history of the first loop check
tool_calls_history(msgs) ==
    LET cs == calls_of(messages_to_check(msgs))
    IN  [k \in 1..Len(cs) |-> call_signature(cs[k])]

\* call_counts[call]
call_counts(history, call) == Cardinality({k \in 1..Len(history) : history[k] = call})

\* positions in tool_calls_history of the calls the first loop check stops on:
\* count >= 2 and not in NEVER_LOOP_BLOCK
looping_calls(msgs) ==
    LET history == tool_calls_history(msgs)
    IN  {k \in 1..Len(history) :
            /\ call_counts(history, history[k]) >= 2
            /\ history[k][1] \notin NEVER_LOOP_BLOCK}

\* the first loop check returns its canned message
tool_loop_detected(msgs) ==
    /\ Len(msgs) >= 3
    /\ Len(tool_calls_history(msgs)) >= 2
    /\ looping_calls(msgs) # {}

\* messages the duplicate check after the model call looks at
current_question(msgs) ==
    LET h == last_human_index(msgs)
    IN  IF h >= 1 THEN SubSeq(msgs, h, Len(msgs)) ELSE msgs

\* previous_calls of the duplicate check after the model call
previous_calls(msgs) ==
    LET cs == calls_of(current_question(msgs))
    IN  {call_signature(cs[k]) : k \in 1..Len(cs)}

\* a count of the searches made after the first one of the turn
search_count_after_first(msgs) ==
    LET cs == calls_of(current_question(msgs))
        n == Cardinality({k \in 1..Len(cs) : cs[k].name = "tavily_search"})
    IN  IF n = 0 THEN 0 ELSE n - 1

\* previous_tool_names.count('tavily_search')
search_count(msgs) ==
    LET cs == calls_of(current_question(msgs))
    IN  Cardinality({k \in 1..Len(cs) : cs[k].name = "tavily_search"})

\* position of the first requested call the duplicate check blocks, 0 if none
first_duplicate(msgs, calls) ==
    LET D == {k \in 1..Len(calls) :
                /\ calls[k].name \notin NEVER_BLOCK_TOOLS
                /\ call_signature(calls[k]) \in previous_calls(msgs)}
    IN  IF D = {} THEN 0 ELSE CHOOSE k \in D : \A j \in D : k <= j

\* previous_result: the content of the message after the last message that
\* carries a call with this signature (None is rendered as the empty text)
previous_result(msgs, call) ==
    LET M == {i \in 1..(Len(msgs) - 1) :
                \E k \in 1..Len(msgs[i].tool_calls) :
                    call_signature(msgs[i].tool_calls[k]) = call}
    IN  IF M = {} THEN <<>>
        ELSE msgs[(CHOOSE i \in M : \A j \in M : j <= i) + 1].content

\* the format_output call chatbot issues in place of a blocked call
format_call(result) ==
    [name |-> "format_output",
     args |-> <<ArgItem("data", 0, result),
                ArgItem("data_type", 0,
                        IF contains(result, "location") THEN <<"weather">>
                        ELSE <<"search">>)>>,
     id |-> [src |-> "duplicate_format", n |-> 0, data |-> result]]

\* an except branch that tests the timeout keyword before the authentication ones
error_content_timeout_first(error_msg) ==
    IF "timeout" \in error_msg THEN TIMEOUT_ERROR_TEXT
    ELSE IF "401" \in error_msg \/ "authentication" \in error_msg THEN AUTH_ERROR_TEXT
    ELSE IF "connection" \in error_msg THEN CONNECTION_ERROR_TEXT
    ELSE GENERIC_ERROR_TEXT

\* the except branch of chatbot: the message for str(e)
error_content(error_msg) ==
    IF "401" \in error_msg \/ "authentication" \in error_msg THEN AUTH_ERROR_TEXT
    ELSE IF "timeout" \in error_msg THEN TIMEOUT_ERROR_TEXT
    ELSE IF "connection" \in error_msg THEN CONNECTION_ERROR_TEXT
    ELSE GENERIC_ERROR_TEXT

Outcome(add, why, tool_name, call_id, did_invoke) ==
    [add |-> add, verdict |-> why, culprit |-> tool_name,
     blocked |-> call_id, invoked |-> did_invoke]

\* the duplicate check on a response that carries tool calls
check_response(msgs, response) ==
    LET calls == response.tool_calls
        d == first_duplicate(msgs, calls)
    IN  IF search_count(msgs) >= 2
        THEN Outcome(<<AIMessage(SEARCH_STOP_TEXT, <<>>)>>, "search_loop",
                     "tavily_search", NoId, TRUE)
        ELSE IF d = 0
        THEN Outcome(<<AIMessage(response.content, calls)>>, "approved", "", NoId, TRUE)
        ELSE LET result == previous_result(msgs, call_signature(calls[d]))
             IN  IF truthy(result)
                 THEN IF ~startswith(result, "{")
                      THEN Outcome(<<AIMessage(result, <<>>)>>, "replayed",
                                   calls[d].name, calls[d].id, TRUE)
                      ELSE Outcome(<<AIMessage(<<>>, <<format_call(result)>>)>>,
                                   "reformat", calls[d].name, calls[d].id, TRUE)
                 ELSE Outcome(<<AIMessage(REDIRECT_TEXT, <<>>)>>, "redirected",
                              calls[d].name, calls[d].id, TRUE)

\* the branch for a last message that still carries tool calls
check_pending(msgs) ==
    LET prev == calls_of(SubSeq(msgs, 1, Len(msgs) - 1))
        sigs == {call_signature(prev[k]) : k \in 1..Len(prev)}
        calls == Last(msgs).tool_calls
        D == {k \in 1..Len(calls) : call_signature(calls[k]) \in sigs}
    IN  IF D # {}
        THEN LET d == CHOOSE k \in D : \A j \in D : k <= j
             IN  Outcome(<<AIMessage(EARLIER_STOP_TEXT, <<>>)>>, "duplicate_stop",
                         calls[d].name, calls[d].id, FALSE)
        ELSE \* returns [last_message]: add_messages keeps the one copy
             Outcome(<<>>, "pending_approved", "", NoId, FALSE)

\* AiChatagent.chatbot: the messages it returns for the state `msgs` when the
\* model call (if it is reached) yields `llm`
chatbot(msgs, llm) ==
    IF msgs = <<>>
    THEN Outcome(<<AIMessage(INVALID_STATE_TEXT, <<>>)>>, "invalid_state", "", NoId, FALSE)
    ELSE IF tool_loop_detected(msgs)
    THEN LET history == tool_calls_history(msgs)
             k == CHOOSE i \in looping_calls(msgs) : \A j \in looping_calls(msgs) : i <= j
         IN  Outcome(<<AIMessage(LOOP_STOP_TEXT, <<>>)>>, "loop_stop",
                     history[k][1], NoId, FALSE)
    ELSE IF Last(msgs).tool_calls # <<>>
    THEN check_pending(msgs)
    ELSE IF Last(msgs).type = "ai"
    THEN Outcome(<<>>, "skipped", "", NoId, FALSE)
    ELSE IF llm.kind = "error"
    THEN Outcome(<<AIMessage(error_content(llm.error_msg), <<>>)>>, "model_error",
                 "", NoId, TRUE)
    ELSE IF llm.tool_calls # <<>>
    THEN check_response(msgs, llm)
    ELSE Outcome(<<AIMessage(llm.content, <<>>)>>, "final", "", NoId, TRUE)

\* route_tools that looks at the type of the last message instead of its tool_calls
route_tools_by_type(msgs) ==
    IF msgs = <<>> THEN "DONE"
    ELSE IF Last(msgs).type = "ai" THEN "TOOL_DISPATCH"
    ELSE "DONE"

\* AiChatagent.route_tools on the state after the chatbot node
route_tools(msgs) ==
    IF msgs = <<>> THEN "DONE"
    ELSE IF Last(msgs).tool_calls # <<>> THEN "TOOL_DISPATCH"
    ELSE "DONE"

\* ------------------------------------------------------------------ tools node
\* what tool.invoke followed by ResponseFormatter.format_tool_result and
\* clean_response can yield: readable text, text that is still a JSON object,
\* or an exception
Outcomes == {"text", "json", "raise"}

\* the formatted result of a handler that returned
formatted_result(tool_name, outcome) ==
    IF outcome = "json" THEN <<"{", "\"data\":", tool_name, "}">>
    ELSE <<"Result of", tool_name>>

\* tool_output that looks the tool up inside the try block: a name that is
\* not registered ends in the except branch like a failing handler
tool_output_lookup_in_try(tc, outcome) ==
    IF ~registered(tc.name) \/ outcome = "raise"
    THEN ToolMessage(json_error(<<"Error calling tool", tc.name, ":", "exception">>),
                     tc.name, tc.id)
    ELSE ToolMessage(formatted_result(tc.name, outcome), tc.name, tc.id)

\* tool_output whose failure branches leave out tool_call_id
tool_output_without_id(tc, outcome) ==
    IF ~registered(tc.name)
    THEN ToolMessage(json_error(<<"Tool", tc.name, "not found. Available tools:">>
                                \o tools_by_name),
                     tc.name, NoId)
    ELSE IF outcome = "raise"
    THEN ToolMessage(json_error(<<"Error calling tool", tc.name, ":", "exception">>),
                     tc.name, NoId)
    ELSE ToolMessage(formatted_result(tc.name, outcome), tc.name, tc.id)

\* the ToolMessage BasicToolNode appends for one tool call
tool_output(tc, outcome) ==
    IF ~registered(tc.name)
    THEN ToolMessage(json_error(<<"Tool", tc.name, "not found. Available tools:">>
                                \o tools_by_name),
                     tc.name, tc.id)
    ELSE IF outcome = "raise"
    THEN ToolMessage(json_error(<<"Error calling tool", tc.name, ":", "exception">>),
                     tc.name, tc.id)
    ELSE ToolMessage(formatted_result(tc.name, outcome), tc.name, tc.id)

\* a for loop that leaves the batch at the first failing call
RECURSIVE run_tool_calls_until_failure(_, _)
run_tool_calls_until_failure(calls, outcomes) ==
    IF calls = <<>> THEN <<>>
    ELSE IF is_error(tool_output(Head(calls), Head(outcomes)).content)
    THEN <<tool_output(Head(calls), Head(outcomes))>>
    ELSE <<tool_output(Head(calls), Head(outcomes))>>
         \o run_tool_calls_until_failure(Tail(calls), Tail(outcomes))

\* a for loop that puts each output in front of the earlier ones
RECURSIVE run_tool_calls_reversed(_, _)
run_tool_calls_reversed(calls, outcomes) ==
    IF calls = <<>> THEN <<>>
    ELSE run_tool_calls_reversed(Tail(calls), Tail(outcomes))
         \o <<tool_output(Head(calls), Head(outcomes))>>

\* the for loop of BasicToolNode.__call__ over message.tool_calls
RECURSIVE run_tool_calls(_, _)
run_tool_calls(calls, outcomes) ==
    IF calls = <<>> THEN <<>>
    ELSE <<tool_output(Head(calls), Head(outcomes))>>
         \o run_tool_calls(Tail(calls), Tail(outcomes))

\* a tools node that answers only the first call of the batch
BasicToolNode_first_call_only(msgs, outcomes) ==
    IF Last(msgs).tool_calls = <<>> THEN <<>>
    ELSE <<tool_output(Head(Last(msgs).tool_calls), Head(outcomes))>>

\* BasicToolNode.__call__: the messages it returns (outputs)
BasicToolNode(msgs, outcomes) ==
    IF Last(msgs).tool_calls = <<>> THEN <<>>
    ELSE run_tool_calls(Last(msgs).tool_calls, outcomes)

\* the handler invocations (tool.invoke) BasicToolNode makes for the batch
RECURSIVE handler_runs(_, _, _, _)
handler_runs(calls, outcomes, at, k) ==
    IF calls = <<>> THEN <<>>
    ELSE (IF registered(Head(calls).name)
          THEN <<[at |-> at, k |-> k, name |-> Head(calls).name,
                  sig |-> call_signature(Head(calls)), id |-> Head(calls).id,
                  outcome |-> Head(outcomes)]>>
          ELSE <<>>)
         \o handler_runs(Tail(calls), Tail(outcomes), at, k + 1)

\* ------------------------------------------------------------------ the model
\* capability names the model asks for: the search capability (registered, not
\* exempt), an exempt capability, and a name that is not registered
Capabilities == {"tavily_search", "format_output", "unknown_tool"}

\* argument values the model uses with a capability
ArgsOf(cap) == IF cap = "tavily_search" THEN 1..MaxArg ELSE {1}

CallChoices == {c \in Capabilities \X (1..MaxArg) : c[2] \in ArgsOf(c[1])}

\* the argument map of a request of the model
ModelArgs(a) == <<ArgItem("query", a, <<>>)>>

NoResponse == [kind |-> "none", content |-> <<>>, tool_calls |-> <<>>, error_msg |-> {}]

\* a response that requests the calls cs, with fresh call ids from n on
CallResponse(cs, n) ==
    [kind |-> "message", content |-> <<>>,
     tool_calls |-> [k \in 1..Len(cs) |->
                        [name |-> cs[k][1], args |-> ModelArgs(cs[k][2]),
                         id |-> LlmId(n + k - 1)]],
     error_msg |-> {}]

TextResponse(text) ==
    [kind |-> "message", content |-> text, tool_calls |-> <<>>, error_msg |-> {}]

\* llm_with_tools.invoke raised; error_msg lists the keywords str(e) contains
ErrorResponse(words) ==
    [kind |-> "error", content |-> <<>>, tool_calls |-> <<>>, error_msg |-> words]

ErrorWords == {"401", "authentication", "timeout", "connection"}

\* everything llm_with_tools.invoke can do
ModelResponses ==
    {TextResponse(t) : t \in {<<"answer">>, <<>>}}
    \cup {CallResponse(cs, nextId) :
            cs \in UNION {[1..n -> CallChoices] :
                            n \in 1..Min(MaxBatch, MaxRequests - Len(requested))}}
    \cup {ErrorResponse({"timeout"})}

\* a model whose call fails with any error text, at the first round or after
\* a round of tool calls
FailingResponses ==
    {CallResponse(<<c>>, nextId) : c \in CallChoices}
    \cup {ErrorResponse(w) : w \in SUBSET ErrorWords}

\* a model that requests one call and then the same call again at every round
RepeatResponses ==
    IF requested = <<>>
    THEN {CallResponse(<<c>>, nextId) : c \in CallChoices}
    ELSE {[kind |-> "message", content |-> <<>>,
           tool_calls |-> <<[name |-> Last(requested).name,
                             args |-> Last(requested).args,
                             id |-> LlmId(nextId)]>>,
           error_msg |-> {}]}

\* a model that requests a call it has not made before at every round
FreshResponses == {CallResponse(<<<<"user_preference", nextId>>>>, nextId)}

\* ------------------------------------------------------------------ windows
\* `if len(self.messages) > 20: self.messages = self.messages[-20:]`
WINDOW_CAP == 20

\* turns explored for one session
MaxTurns == 11

\* turns explored for one session whose client may disconnect
MaxCancelTurns == 4

\* operations explored on one State
MaxStateSteps == 5

\* calls explored on the session stores
MaxStoreSteps == 5

SYSTEM_PROMPT == <<"You are a helpful AI assistant in a chat application.">>

\* ChatState.add_message: append, then keep the last 20 messages
ChatState_add_message(msgs, role, content, now) ==
    LET appended == Append(msgs, [role |-> role, content |-> content, timestamp |-> now])
    IN  IF Len(appended) > WINDOW_CAP
        THEN SubSeq(appended, Len(appended) - WINDOW_CAP + 1, Len(appended))
        ELSE appended

\* chat_input of app/chat_agent.process_message: the system message followed
\* by role and content of every message of the ChatState
build_chat_input(msgs) ==
    <<[role |-> "system", content |-> <<"You are a helpful AI assistant.">>]>>
    \o [i \in 1..Len(msgs) |-> [role |-> msgs[i].role, content |-> msgs[i].content]]

\* datetime.now(timezone.utc) at tick t of the clock
datetime(t) == [type |-> "datetime", at |-> t]

\* datetime.isoformat: the string form of a datetime
isoformat(dt) == [type |-> "str", at |-> dt.at]

\* datetime.fromisoformat of an ISO string, made timezone-aware
fromisoformat(text) == [type |-> "datetime", at |-> text.at]

\* State.add_message: append the message and set updated_at
State_add_message(st, role, content, now) ==
    [st EXCEPT !.messages = Append(@, [role |-> role, content |-> content,
                                       timestamp |-> isoformat(datetime(now))]),
               !.updated_at = datetime(now)]

\* dict.update on a dict held as a set of (key, value) entries
dict_update(d, updates) ==
    {e \in d : \A u \in updates : u.key # e.key} \cup updates

\* State.update_metadata: update the metadata and set updated_at
State_update_metadata(st, updates, now) ==
    [st EXCEPT !.metadata = dict_update(@, updates), !.updated_at = datetime(now)]

\* State.to_dict: the messages list and the metadata dict themselves, and the
\* two dates as ISO strings
State_to_dict(st) ==
    [messages |-> st.messages, metadata |-> st.metadata,
     created_at |-> isoformat(st.created_at), updated_at |-> isoformat(st.updated_at)]

\* the loop of State.from_dict over data['messages']: a timestamp that is a
\* string is replaced by the datetime it parses to
parse_timestamps(msgs) ==
    [i \in 1..Len(msgs) |->
        IF msgs[i].timestamp.type = "str"
        THEN [msgs[i] EXCEPT !.timestamp = fromisoformat(@)]
        ELSE msgs[i]]

\* State.from_dict: the State built from the dictionary
State_from_dict(data) ==
    [messages |-> parse_timestamps(data.messages), metadata |-> data.metadata,
     created_at |-> IF data.created_at.type = "str"
                    THEN fromisoformat(data.created_at) ELSE data.created_at,
     updated_at |-> IF data.updated_at.type = "str"
                    THEN fromisoformat(data.updated_at) ELSE data.updated_at]

\* what State.from_dict(st.to_dict()) leaves in st: data.copy() is shallow and
\* to_dict handed out st.messages itself, so the message dicts whose
\* timestamp from_dict assigns are the message dicts of st
State_after_round_trip(st) ==
    [st EXCEPT !.messages = State_from_dict(State_to_dict(st)).messages]

\* State.__eq__: same messages and same metadata
State_eq(a, b) == a.messages = b.messages /\ a.metadata = b.metadata

\* a clear_conversation that keeps the system prompt only: the first message
clear_conversation_first_only(st, now) ==
    [st EXCEPT !.messages = SubSeq(@, 1, Min(1, Len(@))),
               !.updated_at = datetime(now)]

\* ChatAgent.clear_conversation: keep the system messages, set updated_at
clear_conversation(st, now) ==
    [st EXCEPT !.messages = SelectSeq(@, LAMBDA msg : msg.role = "system"),
               !.updated_at = datetime(now)]

\* ChatAgent.__init__ with a system prompt, on a new State created at time 0
ChatAgent(system_prompt) ==
    State_add_message([messages |-> <<>>, metadata |-> {}, created_at |-> datetime(0),
                       updated_at |-> datetime(0)],
                      "system", system_prompt, 0)

\* ------------------------------------------------------------------ tool base class
\* the keyword arguments a call of Tool.execute can pass, and what it passes
\* for each: nothing, a string, a number or None
InputFields == {"location", "units", "extra"}

InputValues == {"absent", "text", "number", "none"}

ToolInputs == [InputFields -> InputValues]

\* self.input_model(**input_data) for the input model of the tool decorator's
\* example (location: str, required) with an optional string field: the model
\* is built when the required field is a string and the optional one is a
\* string, None or left out; fields the model does not declare are ignored
input_model_accepts(data) ==
    /\ data["location"] = "text"
    /\ data["units"] \in {"absent", "text", "none"}

\* what Tool._execute does with a validated input: it returns a plain value,
\* returns a ToolResult, raises a ToolError or raises another exception
ExecuteOutcomes == {"value", "ToolResult", "ToolError", "exception"}

\* Tool.execute: the input model is built first; when that fails a ToolError
\* is raised, the inner raise passes the outer except unchanged because it is
\* a ToolError; otherwise _execute runs, a plain value is wrapped in a
\* ToolResult and an exception leaves execute as a ToolError
Tool_execute(data, outcome) ==
    IF ~input_model_accepts(data)
    THEN [kind |-> "raise", exception |-> "ToolError",
          text |-> <<"Invalid input for tool", "get_weather", ":", "validation error">>,
          ran |-> FALSE]
    ELSE IF outcome \in {"value", "ToolResult"}
    THEN [kind |-> "return", exception |-> "",
          text |-> <<"The weather in", "text", "is sunny.">>, ran |-> TRUE]
    ELSE IF outcome = "ToolError"
    THEN [kind |-> "raise", exception |-> "ToolError",
          text |-> <<"handler error">>, ran |-> TRUE]
    ELSE [kind |-> "raise", exception |-> "ToolError",
          text |-> <<"Error executing tool", "get_weather", ":", "exception">>,
          ran |-> TRUE]

\* Tool.execute has not been called
InitExecute ==
    /\ input_data = [f \in InputFields |-> "absent"]
    /\ handler_log = <<>>
    /\ execute_out = [kind |-> "none", exception |-> "", text |-> <<>>, ran |-> FALSE]
    /\ tpc = "idle"

\* ------------------------------------------------------------------ result formatter
\* Python values: a str is its text (a sequence of tokens), a dict is the
\* sequence of its entries in insertion order, a list is the sequence of its
\* elements (entries with an empty key)
StrValue(text) == [type |-> "str", text |-> text, items |-> <<>>]

DictValue(items) == [type |-> "dict", text |-> <<>>, items |-> items]

ListValue(items) == [type |-> "list", text |-> <<>>, items |-> items]

NoneValue == [type |-> "none", text |-> <<>>, items |-> <<>>]

Entry(key, value) == [key |-> key, value |-> value]

\* `key in d`
has_key(d, key) == \E i \in 1..Len(d.items) : d.items[i].key = key

\* d[key], and d.get(key) when the key is missing
dict_get(d, key) ==
    IF has_key(d, key)
    THEN d.items[CHOOSE i \in 1..Len(d.items) : d.items[i].key = key].value
    ELSE NoneValue

\* bool(value)
value_truthy(v) ==
    IF v.type = "str" THEN v.text # <<>>
    ELSE IF v.type = "none" THEN FALSE
    ELSE v.items # <<>>

\* a run of n filler characters, written as one token
Run(n) == "x*" \o ToString(n)

\* the lengths of the runs the inputs and the slices of the code can hold
RunLengths == {100, 101, 500, 2001}

\* len() of one token
token_chars(tok) ==
    IF \E n \in RunLengths : tok = Run(n)
    THEN CHOOSE n \in RunLengths : tok = Run(n)
    ELSE Len(tok)

\* len(text)
RECURSIVE chars(_)
chars(text) ==
    IF text = <<>> THEN 0 ELSE token_chars(Head(text)) + chars(Tail(text))

\* text[:n]; a token that is cut is a run of the inputs
RECURSIVE slice_chars(_, _)
slice_chars(text, n) ==
    IF text = <<>> \/ n = 0 THEN <<>>
    ELSE IF token_chars(Head(text)) <= n
    THEN <<Head(text)>> \o slice_chars(Tail(text), n - token_chars(Head(text)))
    ELSE <<Run(n)>>

\* "sep".join(parts)
RECURSIVE join(_, _)
join(sep, parts) ==
    IF parts = <<>> THEN <<>>
    ELSE IF Len(parts) = 1 THEN parts[1]
    ELSE parts[1] \o <<sep>> \o join(sep, Tail(parts))

\* seq[:n]
first_n(seq, n) == SubSeq(seq, 1, Min(n, Len(seq)))

\* str(value): a str is itself, None is "None", a dict or a list is written
\* with its braces, the strings inside it in quotes
RECURSIVE py_repr(_), repr_items(_, _)
py_repr(v) ==
    IF v.type = "str" THEN <<"'">> \o v.text \o <<"'">>
    ELSE IF v.type = "none" THEN <<"None">>
    ELSE IF v.type = "dict" THEN <<"{">> \o repr_items(v.items, TRUE) \o <<"}">>
    ELSE <<"[">> \o repr_items(v.items, FALSE) \o <<"]">>

repr_items(items, keyed) ==
    IF items = <<>> THEN <<>>
    ELSE (IF keyed THEN <<"'", items[1].key, "': ">> ELSE <<>>)
         \o py_repr(items[1].value)
         \o (IF Len(items) > 1 THEN <<", ">> ELSE <<>>)
         \o repr_items(Tail(items), keyed)

py_str(v) == IF v.type = "str" THEN v.text ELSE py_repr(v)

\* str.upper() of the status values
upper(text) ==
    [i \in 1..Len(text) |->
        IF text[i] = "success" THEN "SUCCESS"
        ELSE IF text[i] = "failed" THEN "FAILED"
        ELSE text[i]]

\* GeminiResponseHandler._format_data
format_data(data, name) ==
    IF data.type = "dict"
    THEN <<"Results from ", name, ":", "\n">>
         \o join("\n", [i \in 1..Len(first_n(data.items, 5)) |->
                           <<"- ", data.items[i].key, ": ">>
                           \o py_str(data.items[i].value)])
    ELSE py_str(data)

\* GeminiResponseHandler._format_skill_evaluation
format_skill_evaluation(result) ==
    LET message == dict_get(result, "message")
        skills == dict_get(result, "current_skills")
        suggestions == dict_get(result, "suggestions")
        research == dict_get(result, "latest_research")
        parts ==
            (IF value_truthy(message) THEN <<py_str(message)>> ELSE <<>>)
            \o (IF value_truthy(skills)
                THEN <<<<"\n", "Current Skill Levels:">>>>
                     \o [i \in 1..Len(skills.items) |->
                            <<"  * ", skills.items[i].key, ": ">>
                            \o py_str(skills.items[i].value) \o <<"/100">>]
                ELSE <<>>)
            \o (IF value_truthy(suggestions)
                THEN <<<<"\n", "Suggestions:">>>>
                     \o [i \in 1..Len(first_n(suggestions.items, 3)) |->
                            <<"  * ">> \o py_str(suggestions.items[i].value)]
                ELSE <<>>)
            \o (IF value_truthy(research)
                THEN <<<<"\n", "Based on latest ">>
                       \o (IF has_key(research, "year")
                           THEN py_str(dict_get(research, "year")) ELSE <<"2025">>)
                       \o <<" research">>>>
                ELSE <<>>)
    IN  IF parts # <<>> THEN join("\n", parts) ELSE py_str(result)

\* one bullet line of _format_dict: a value longer than 100 characters is
\* cut to 100 and followed by "..."
dict_line(entry) ==
    LET value_str == py_str(entry.value)
    IN  <<"  * ", entry.key, ": ">>
        \o (IF chars(value_str) > 100
            THEN slice_chars(value_str, 100) \o <<"...">>
            ELSE value_str)

\* GeminiResponseHandler._format_dict
format_dict(data, name) ==
    IF data.items = <<>> THEN <<"No data from ", name>>
    ELSE join("\n",
              <<<<"Results from ", name, ":">>>>
              \o [i \in 1..Len(first_n(data.items, 5)) |-> dict_line(data.items[i])]
              \o (IF Len(data.items) > 5
                  THEN <<<<"  ... and ", ToString(Len(data.items) - 5), " more fields">>>>
                  ELSE <<>>))

\* the status/message rendering of format_tool_result
format_status_message(result) ==
    <<"[">> \o upper(py_str(dict_get(result, "status"))) \o <<"] ">>
    \o py_str(dict_get(result, "message"))
    \o (IF has_key(result, "skill_scores")
        THEN <<"\n\n", "Skill Scores: ">> \o py_str(dict_get(result, "skill_scores"))
        ELSE <<>>)
    \o (IF has_key(result, "suggestions") /\ value_truthy(dict_get(result, "suggestions"))
        THEN <<"\n\n", "Suggestions:", "\n">>
             \o join("\n", [i \in 1..Len(first_n(dict_get(result, "suggestions").items, 3)) |->
                               <<"- ">> \o py_str(dict_get(result, "suggestions").items[i].value)])
        ELSE <<>>)

\* format_tool_result that looks at the data field before the error field
format_tool_result_data_first(result, name) ==
    IF result.type = "dict"
    THEN IF has_key(result, "data")
         THEN format_data(dict_get(result, "data"), name)
         ELSE IF has_key(result, "error")
         THEN <<"Error from ", name, ": ">> \o py_str(dict_get(result, "error"))
         ELSE IF name = "skill_evaluator"
         THEN format_skill_evaluation(result)
         ELSE IF has_key(result, "status") /\ has_key(result, "message")
         THEN format_status_message(result)
         ELSE format_dict(result, name)
    ELSE IF result.type = "str" THEN result.text
    ELSE IF result.type = "list"
    THEN IF result.items = <<>> THEN <<"No results from ", name>>
         ELSE <<"Results from ", name, ":", "\n">>
              \o join("\n", [i \in 1..Len(first_n(result.items, 5)) |->
                                py_str(result.items[i].value)])
    ELSE py_str(result)

\* GeminiResponseHandler.format_tool_result
format_tool_result(result, name) ==
    IF result.type = "dict"
    THEN IF has_key(result, "error")
         THEN <<"Error from ", name, ": ">> \o py_str(dict_get(result, "error"))
         ELSE IF has_key(result, "data")
         THEN format_data(dict_get(result, "data"), name)
         ELSE IF name = "skill_evaluator"
         THEN format_skill_evaluation(result)
         ELSE IF has_key(result, "status") /\ has_key(result, "message")
         THEN format_status_message(result)
         ELSE format_dict(result, name)
    ELSE IF result.type = "str" THEN result.text
    ELSE IF result.type = "list"
    THEN IF result.items = <<>> THEN <<"No results from ", name>>
         ELSE <<"Results from ", name, ":", "\n">>
              \o join("\n", [i \in 1..Len(first_n(result.items, 5)) |->
                                py_str(result.items[i].value)])
    ELSE py_str(result)

\* the capability names the formatter is called with
ToolNames == {"search", "skill_evaluator", "weather"}

\* n plain fields k1: v1 .. kn: vn; when `long` the first value is a run of
\* 101 characters
Fields(n, long) ==
    [i \in 1..n |->
        Entry("k" \o ToString(i),
              StrValue(IF long /\ i = 1 THEN <<Run(101)>> ELSE <<"v" \o ToString(i)>>))]

\* n list elements
Elements(n) == [i \in 1..n |-> Entry("", StrValue(<<"e" \o ToString(i)>>))]

\* the entry `key: value` when `present`
Optional(present, key, value) == IF present THEN <<Entry(key, value)>> ELSE <<>>

\* the values of a data field
DataValues ==
    {DictValue(Fields(n, FALSE)) : n \in 0..MaxFields}
    \cup {StrValue(<<Run(2001)>>), ListValue(Elements(2))}

\* the values of a message field: a plain text, and a text that reads like
\* the rendering of an error
MessageValues ==
    {StrValue(<<"ok">>), StrValue(<<"Error from ", "search", ": ", "timeout">>)}

\* the other fields a skill evaluation or a status result can carry
ExtraEntries ==
    {<<>>,
     <<Entry("suggestions", ListValue(Elements(4)))>>,
     <<Entry("current_skills", DictValue(<<Entry("empathy", StrValue(<<"70">>))>>))>>,
     <<Entry("latest_research", DictValue(<<Entry("year", StrValue(<<"2024">>))>>))>>,
     <<Entry("skill_scores", DictValue(<<Entry("empathy", StrValue(<<"70">>))>>))>>}

\* results that carry an error, alone or with data, status and message
ErrorResults ==
    {DictValue(Optional(sm, "status", StrValue(<<"failed">>))
               \o Optional(sm, "message", StrValue(<<"ok">>))
               \o <<Entry("error", StrValue(<<"timeout">>))>>
               \o Optional(d, "data", DictValue(Fields(2, FALSE)))
               \o Fields(n, FALSE)) :
        sm \in BOOLEAN, d \in BOOLEAN, n \in 0..1}

\* results with a data field
DataResults ==
    {DictValue(Optional(st, "status", StrValue(<<"success">>))
               \o <<Entry("data", data)>>) :
        st \in BOOLEAN, data \in DataValues}

\* results with status, message and the fields of a skill evaluation
StatusResults ==
    {DictValue(Optional(st, "status", StrValue(<<"success">>))
               \o <<Entry("message", message)>> \o extra \o Fields(n, FALSE)) :
        st \in BOOLEAN, message \in MessageValues, extra \in ExtraEntries, n \in {0, 2}}

\* flat results of plain fields
FlatResults ==
    {DictValue(Fields(n, long)) : n \in 0..MaxFields, long \in BOOLEAN}

\* results that are no dict: strings, lists, None
PlainResults ==
    {StrValue(<<"sunny">>), StrValue(<<Run(2001)>>),
     StrValue(<<"Error from ", "search", ": ", "timeout">>), NoneValue}
    \cup {ListValue(Elements(n)) : n \in 0..MaxFields}

ToolResults ==
    ErrorResults \cup DataResults \cup StatusResults \cup FlatResults \cup PlainResults

\* format_tool_result has not been called
InitFormatter ==
    /\ fmt_result = NoneValue
    /\ fmt_name = ""
    /\ formatted = <<>>
    /\ fpc = "idle"

\* ------------------------------------------------------------------ fallback generator
\* a content is written character by character where the code looks at
\* characters: blank, newline, backtick (written ^) and a letter
Characters == {" ", "\n", "^", "a"}

Whitespace == {" ", "\n"}

\* the class attribute EMPTY_PATTERNS: the empty string, a fence of three
\* backticks, a newline and a fence, one backtick, a newline, a blank
EMPTY_PATTERNS ==
    {<<>>, <<"^", "^", "^">>, <<"\n", "^", "^", "^">>, <<"^">>, <<"\n">>, <<" ">>}

\* str.lstrip(), str.rstrip() and str.strip()
RECURSIVE lstrip(_)
lstrip(content) ==
    IF content # <<>> /\ Head(content) \in Whitespace THEN lstrip(Tail(content))
    ELSE content

RECURSIVE rstrip(_)
rstrip(content) ==
    IF content # <<>> /\ Last(content) \in Whitespace
    THEN rstrip(SubSeq(content, 1, Len(content) - 1))
    ELSE content

strip(content) == rstrip(lstrip(content))

\* is_empty_response without the calls of strip
is_empty_response_unstripped(message) ==
    \/ message.content = <<>>
    \/ message.content \in EMPTY_PATTERNS

\* GeminiResponseHandler.is_empty_response (a message object is truthy)
is_empty_response(message) ==
    \/ message.content = <<>>
    \/ strip(message.content) \in EMPTY_PATTERNS
    \/ strip(message.content) = <<>>

\* what extract_tool_result_from_messages returns: None, or the pair
\* (tool_result, tool_name) whose tool_result can be None
NoToolInfo == [found |-> FALSE, none_result |-> TRUE, tool_result |-> <<>>, tool_name |-> ""]

ToolInfo(content, name) ==
    [found |-> TRUE, none_result |-> FALSE, tool_result |-> content, tool_name |-> name]

CallInfo(name) ==
    [found |-> TRUE, none_result |-> TRUE, tool_result |-> <<>>, tool_name |-> name]

\* the loop of extract_tool_result_from_messages over reversed(recent): the
\* first message from the end that is a ToolMessage gives its content and
\* name, the first that holds tool calls gives (None, name of its first call)
RECURSIVE scan_reversed(_)
scan_reversed(recent) ==
    IF recent = <<>> THEN NoToolInfo
    ELSE IF Last(recent).type = "tool"
    THEN ToolInfo(Last(recent).content, Last(recent).name)
    ELSE IF Last(recent).tool_calls # <<>>
    THEN CallInfo(Last(recent).tool_calls[1].name)
    ELSE scan_reversed(SubSeq(recent, 1, Len(recent) - 1))

\* messages[-look_back:]
last_messages(msgs, look_back) ==
    SubSeq(msgs, Max(1, Len(msgs) - look_back + 1), Len(msgs))

\* GeminiResponseHandler.extract_tool_result_from_messages, look_back = 3
extract_tool_result_from_messages(msgs) == scan_reversed(last_messages(msgs, 3))

APOLOGY_TEXT ==
    <<"I apologize, but I'm having trouble generating a response. ",
      "Could you please rephrase your question or try asking something else?">>

\* generate_fallback that leaves the formatted result out of the message
generate_fallback_name_only(result, name) ==
    IF value_truthy(result) /\ name # ""
    THEN AIMessage(<<"Based on the ", name, " results:", "\n\n">>, <<>>)
    ELSE IF value_truthy(result)
    THEN AIMessage(<<"Based on the information I found:", "\n\n">>
                   \o slice_chars(py_str(result), 500),
                   <<>>)
    ELSE AIMessage(APOLOGY_TEXT, <<>>)

\* GeminiResponseHandler.generate_fallback(tool_result, tool_name); None is
\* NoneValue for the result and "" for the name
generate_fallback(result, name) ==
    IF value_truthy(result) /\ name # ""
    THEN AIMessage(<<"Based on the ", name, " results:", "\n\n">>
                   \o format_tool_result(result, name),
                   <<>>)
    ELSE IF value_truthy(result)
    THEN AIMessage(<<"Based on the information I found:", "\n\n">>
                   \o slice_chars(py_str(result), 500),
                   <<>>)
    ELSE AIMessage(APOLOGY_TEXT, <<>>)

\* GeminiResponseHandler.create_response_with_fallback; the tool result it
\* finds is the content of a ToolMessage, a str
create_response_with_fallback(message, msgs) ==
    IF ~is_empty_response(message) THEN message
    ELSE LET tool_info == extract_tool_result_from_messages(msgs)
         IN  IF tool_info.found /\ ~tool_info.none_result /\ truthy(tool_info.tool_result)
             THEN generate_fallback(StrValue(tool_info.tool_result), tool_info.tool_name)
             ELSE generate_fallback(NoneValue, "")

\* the contents of the candidate message
RECURSIVE ContentsOf(_)
ContentsOf(n) ==
    IF n = 0 THEN {<<>>}
    ELSE ContentsOf(n - 1)
         \cup {Append(c, ch) : c \in {d \in ContentsOf(n - 1) : Len(d) = n - 1},
                               ch \in Characters}

Contents == ContentsOf(MaxContent)

\* the messages of a history: a user message, the result of the weather
\* capability, a result with empty content, an assistant message that
\* requests a call
HistoryMessages ==
    {HumanMessage(<<"user text">>),
     ToolMessage(<<"temp: ", "20">>, "weather", LlmId(1)),
     ToolMessage(<<>>, "weather", LlmId(1)),
     AIMessage(<<>>, CallResponse(<<<<"tavily_search", 1>>>>, 2).tool_calls)}

RECURSIVE HistoriesOf(_)
HistoriesOf(n) ==
    IF n = 0 THEN {<<>>}
    ELSE HistoriesOf(n - 1)
         \cup {Append(h, m) : h \in {g \in HistoriesOf(n - 1) : Len(g) = n - 1},
                              m \in HistoryMessages}

Histories == HistoriesOf(MaxHistory)

\* create_response_with_fallback has not been called
InitFallback ==
    /\ candidate_message = AIMessage(<<>>, <<>>)
    /\ fallback_window = <<>>
    /\ recovered = AIMessage(<<>>, <<>>)
    /\ rpc = "idle"

\* ------------------------------------------------------------------ keyed sessions
\* the session keys (user ids) that send messages
SessionKeys == {"A", "B"}

Coroutines == 1..MaxCoroutines

\* BaseAgent.add_message on the agent of every session at once, as if the
\* agents held one State object
session_add_message_shared(ags, key, role, content, now) ==
    [k \in DOMAIN ags |-> State_add_message(ags[k], role, content, now)]

\* BaseAgent.add_message on the agent of one session: self.state of that
\* agent is the State its constructor created
session_add_message(ags, key, role, content, now) ==
    [ags EXCEPT ![key] = State_add_message(@, role, content, now)]

\* a process_message coroutine that has not been called
NoTurn == [key |-> "", at |-> "new"]

\* one ChatAgent with its own State for every key, and no coroutine running
InitSessions ==
    /\ agents = [k \in SessionKeys |-> ChatAgent(SYSTEM_PROMPT)]
    /\ turns = [t \in Coroutines |-> NoTurn]

\* ------------------------------------------------------------------ session stores
\* ChatAgentService.process_message has not been called
NoCall == [user_id |-> "", raised |-> ""]

\* the fields of the State dataclass: the keyword arguments State() accepts
StateFields == {"messages", "metadata", "created_at", "updated_at"}

\* State(**kwargs): raises TypeError on a keyword that is not a field
State_accepts(kwargs) == kwargs \subseteq StateFields

\* d[key] = value on a dict held as a function
dict_put(d, key, value) ==
    [k \in DOMAIN d \cup {key} |-> IF k = key THEN value ELSE d[k]]

\* ChatAgentService.get_agent: the agents afterwards and the exception raised
get_agent(ags, user_id) ==
    IF user_id \in DOMAIN ags
    THEN [agents |-> ags, raised |-> ""]
    ELSE IF State_accepts({"user_id", "conversation_history", "preferences"})
    THEN [agents |-> dict_put(ags, user_id, ChatAgent(SYSTEM_PROMPT)), raised |-> ""]
    ELSE [agents |-> ags, raised |-> "TypeError"]

\* datetime.now() ticks that fall into one second
TicksPerSecond == 2

\* ChatState.__init__: f"conv-{user_id}-{int(datetime.now().timestamp())}"
new_conversation_id(user_id, now) == <<"conv", user_id, now \div TicksPerSecond>>

\* no conversation_id was passed (None)
NoConversation == <<>>

\* a conversation_id the caller made up
ClientConversation == <<"client">>

\* conversation_history.get(conversation_id, ChatState(user_id)).messages
stored_messages(store, conversation_id) ==
    IF conversation_id \in DOMAIN store THEN store[conversation_id] ELSE <<>>

\* ------------------------------------------------------------------ persistence
\* process_message has returned nothing
NoResult == [response |-> <<>>, status |-> "none"]

\* what dm.save_messages does
SaveOutcomes == {"saved", "raise"}

\* `result` of process_message for the response text
success_result(response_text) == [response |-> response_text, status |-> "success"]

\* the response of the outer except branch of process_message
error_result ==
    [response |-> <<"I encountered an error processing your message. Please try again.">>,
     status |-> "error"]

\* try: dm.save_messages(...) except Exception: print(...); return result
return_after_save(res, outcome) == res

\* ------------------------------------------------------------------ the graph
\* no graph run has started
InitGraph ==
    /\ messages = <<>>
    /\ pc = "AWAIT_INPUT"
    /\ steps = 0
    /\ executed = <<>>
    /\ requested = <<>>
    /\ blocked = {}
    /\ verdict = "none"
    /\ culprit = ""
    /\ lastResponse = NoResponse
    /\ invokes = 0
    /\ seenLen = 0
    /\ dispatches = 0
    /\ nextId = 1

\* the sessions have received nothing
InitWindows ==
    /\ chat_state = <<>>
    /\ chat_input = <<>>
    /\ wpc = "idle"
    /\ state = ChatAgent(SYSTEM_PROMPT)
    /\ clock = 1
    /\ save_calls = 0
    /\ save_failed = FALSE
    /\ returned = NoResult
    /\ restored = ChatAgent(SYSTEM_PROMPT)
    /\ spc = "new"
    /\ agent_out = [calls |-> 0, handler |-> "none", kind |-> "none", exception |-> "",
                    success |-> TRUE]
    /\ service_agents = <<>>
    /\ service_last = NoCall
    /\ conversation_history = <<>>

Init ==
    /\ InitGraph
    /\ InitWindows
    /\ InitExecute
    /\ InitFormatter
    /\ InitFallback
    /\ InitSessions

\* graph.invoke / graph.stream with {"messages": [the user's message]}
StartTurn ==
    /\ pc = "AWAIT_INPUT"
    /\ messages' = <<HumanMessage(<<"user text">>)>>
    /\ pc' = "MODEL_INVOKE"
    /\ UNCHANGED <<steps, executed, requested, blocked, verdict, culprit,
                   lastResponse, invokes, seenLen, dispatches, nextId>>
    /\ UNCHANGED <<wvars, hvars, pvars, kvars>>

\* the chatbot node followed by the conditional edge route_tools
ChatbotNode(responses, limit) ==
    /\ pc = "MODEL_INVOKE"
    /\ steps < limit
    /\ \E llm \in responses :
          LET r == chatbot(messages, llm)
              new == messages \o r.add
          IN  /\ messages' = new
              /\ pc' = route_tools(new)
              /\ verdict' = r.verdict
              /\ culprit' = r.culprit
              /\ blocked' = IF r.blocked = NoId THEN blocked ELSE blocked \cup {r.blocked}
              /\ lastResponse' = IF r.invoked THEN llm ELSE NoResponse
              /\ requested' = IF r.invoked THEN requested \o llm.tool_calls ELSE requested
              /\ invokes' = IF r.invoked THEN invokes + 1 ELSE invokes
              /\ seenLen' = IF r.invoked THEN Len(messages) ELSE seenLen
              /\ nextId' = IF r.invoked THEN nextId + Len(llm.tool_calls) ELSE nextId
    /\ steps' = steps + 1
    /\ UNCHANGED <<executed, dispatches>>
    /\ UNCHANGED <<wvars, hvars, pvars, kvars>>

\* graph_builder.add_edge("tools", "chatbot"): where the graph goes after the
\* tools node returned `outputs`
tools_edge(outputs) == "MODEL_INVOKE"

\* the tools node followed by the edge tools -> chatbot
ToolsNode(outcomeSet, limit) ==
    /\ pc = "TOOL_DISPATCH"
    /\ steps < limit
    /\ \E outcomes \in [1..Len(Last(messages).tool_calls) -> outcomeSet] :
          /\ messages' = messages \o BasicToolNode(messages, outcomes)
          /\ executed' = executed \o handler_runs(Last(messages).tool_calls, outcomes,
                                                  Len(messages), 1)
          /\ pc' = tools_edge(BasicToolNode(messages, outcomes))
    /\ steps' = steps + 1
    /\ dispatches' = dispatches + 1
    /\ UNCHANGED <<requested, blocked, verdict, culprit, lastResponse, invokes,
                   seenLen, nextId>>
    /\ UNCHANGED <<wvars, hvars, pvars, kvars>>

\* the run is stopped with GraphRecursionError: END was not reached within
\* recursion_limit supersteps
RecursionAbort ==
    /\ pc \in {"MODEL_INVOKE", "TOOL_DISPATCH"}
    /\ steps = RecursionLimit
    /\ pc' = "ABORTED"
    /\ UNCHANGED <<messages, steps, executed, requested, blocked, verdict, culprit,
                   lastResponse, invokes, seenLen, dispatches, nextId>>
    /\ UNCHANGED <<wvars, hvars, pvars, kvars>>

ChatbotStep == ChatbotNode(ModelResponses, MaxSupersteps)

ToolsStep == ToolsNode(Outcomes, MaxSupersteps)

Next == StartTurn \/ ChatbotStep \/ ToolsStep

Spec == Init /\ [][Next]_vars

\* a turn in which the model call fails
ChatbotFailing == ChatbotNode(FailingResponses, MaxSupersteps)

NextFailing == StartTurn \/ ChatbotFailing \/ ToolsStep

SpecFailing == Init /\ [][NextFailing]_vars

\* a turn in which the model repeats its request at every round
ChatbotRepeat == ChatbotNode(RepeatResponses, RecursionLimit)

ToolsRun == ToolsNode({"text", "raise"}, RecursionLimit)

NextRepeat == StartTurn \/ ChatbotRepeat \/ ToolsRun \/ RecursionAbort

SpecRepeat == Init /\ [][NextRepeat]_vars

\* a turn in which the model requests a new distinct call at every round
ChatbotFresh == ChatbotNode(FreshResponses, RecursionLimit)

NextFresh == StartTurn \/ ChatbotFresh \/ ToolsRun \/ RecursionAbort

SpecFresh == Init /\ [][NextFresh]_vars

\* a model that writes the two arguments of a search in either order
\* ({'query': a, 'max_results': 1} or {'max_results': 1, 'query': a})
KeyedArgs(a) ==
    {<<ArgItem("query", a, <<>>), ArgItem("max_results", 1, <<>>)>>,
     <<ArgItem("max_results", 1, <<>>), ArgItem("query", a, <<>>)>>}

KeyedResponses ==
    {TextResponse(<<"answer">>)}
    \cup {[kind |-> "message", content |-> <<>>,
           tool_calls |-> <<[name |-> "tavily_search", args |-> args,
                             id |-> LlmId(nextId)]>>,
           error_msg |-> {}] : args \in UNION {KeyedArgs(a) : a \in 1..MaxArg}}

ChatbotKeyed == ChatbotNode(KeyedResponses, MaxSupersteps)

NextKeyed == StartTurn \/ ChatbotKeyed \/ ToolsStep

SpecKeyed == Init /\ [][NextKeyed]_vars

\* a turn that the model answered after one search, as an earlier turn of a window
EarlierTurn(a) ==
    <<HumanMessage(<<"earlier user text">>),
      AIMessage(<<>>, CallResponse(<<<<"tavily_search", a>>>>, 0).tool_calls),
      tool_output(CallResponse(<<<<"tavily_search", a>>>>, 0).tool_calls[1], "text"),
      AIMessage(<<"answer">>, <<>>)>>

\* the windows a State handed to chatbot can hold before the current turn
EarlierTurns == {<<>>} \cup {EarlierTurn(a) : a \in 1..MaxArg}

\* the graph is run on a State whose window holds an earlier turn, followed
\* by the new user message alone or by the user message and an assistant
\* message whose call requests are not executed yet
ResumeTurn ==
    /\ pc = "AWAIT_INPUT"
    /\ \E history \in EarlierTurns :
          \/ /\ messages' = history \o <<HumanMessage(<<"user text">>)>>
             /\ UNCHANGED <<requested, nextId>>
          \/ \E c \in CallChoices :
                LET pending == CallResponse(<<c>>, nextId)
                IN  /\ messages' = history \o <<HumanMessage(<<"user text">>),
                                                 AIMessage(<<>>, pending.tool_calls)>>
                    /\ requested' = pending.tool_calls
                    /\ nextId' = nextId + 1
    /\ pc' = "MODEL_INVOKE"
    /\ UNCHANGED <<steps, executed, blocked, verdict, culprit, lastResponse, invokes,
                   seenLen, dispatches>>
    /\ UNCHANGED <<wvars, hvars, pvars, kvars>>

NextResume == ResumeTurn \/ ChatbotStep \/ ToolsStep

SpecResume == Init /\ [][NextResume]_vars

\* ------------------------------------------------------------------ sessions
\* app/chat_agent.process_message up to the call of the agent: the user's
\* message is added to the ChatState and chat_input is built
ProcessMessageBegin(turn_limit) ==
    /\ wpc = "idle"
    /\ clock <= 2 * turn_limit
    /\ chat_state' = ChatState_add_message(chat_state, "user", <<"user text">>, clock)
    /\ chat_input' = build_chat_input(chat_state')
    /\ clock' = clock + 1
    /\ wpc' = "agent"
    /\ UNCHANGED <<state, gvars, kvars, hvars, pvars>>

\* chat_agent.chatbot returned a dict message with role assistant (the message
\* of its except branch): its content is added to the ChatState, the messages
\* are saved and the result is returned
ProcessMessageReplyAt(position) ==
    /\ wpc = position
    /\ chat_state' = ChatState_add_message(chat_state, "assistant",
                                           error_content({"timeout"}), clock)
    /\ clock' = clock + 1
    /\ \E outcome \in SaveOutcomes :
          /\ save_calls' = save_calls + 1
          /\ save_failed' = (outcome = "raise")
          /\ returned' = return_after_save(success_result(error_content({"timeout"})),
                                           outcome)
    /\ wpc' = "idle"
    /\ UNCHANGED <<chat_input, state, restored, spc, agent_out, gvars, kvars, hvars>>

\* chat_agent.chatbot returned a message object: msg["role"] raises, the
\* RuntimeError is caught by the outer handler and the error response is
\* returned; nothing is added to the ChatState
ProcessMessageErrorAt(position) ==
    /\ wpc = position
    /\ wpc' = "idle"
    /\ returned' = error_result
    /\ UNCHANGED <<chat_state, chat_input, state, clock, save_calls, save_failed,
                   restored, spc, agent_out, gvars, kvars, hvars>>

ProcessMessageStart == ProcessMessageBegin(MaxTurns)

ProcessMessageReply == ProcessMessageReplyAt("agent")

ProcessMessageError == ProcessMessageErrorAt("agent")

NextWindow == ProcessMessageStart \/ ProcessMessageReply \/ ProcessMessageError

SpecWindow == Init /\ [][NextWindow]_vars

\* the client goes away while process_message is inside chat_agent.chatbot:
\* the endpoint called process_message without awaiting anything, so the
\* call goes on; the disconnect is seen at the next await of the endpoint
ClientDisconnect ==
    /\ wpc = "agent"
    /\ wpc' = "disconnected"
    /\ UNCHANGED <<chat_state, chat_input, state, clock, gvars, kvars, hvars, pvars>>

CancelStart == ProcessMessageBegin(MaxCancelTurns)

\* process_message goes on after the disconnect as it does without one
ReplyAfterDisconnect == ProcessMessageReplyAt("disconnected")

ErrorAfterDisconnect == ProcessMessageErrorAt("disconnected")

NextCancel ==
    \/ CancelStart
    \/ ClientDisconnect
    \/ ProcessMessageReply
    \/ ProcessMessageError
    \/ ReplyAfterDisconnect
    \/ ErrorAfterDisconnect

SpecCancel == Init /\ [][NextCancel]_vars

\* what the message handler of ChatAgent.process_message does
HandlerOutcomes == {"response", "none", "raise"}

\* ChatAgent.process_message: the incoming message is added, then the
\* handler's response (role assistant) or the error (role system)
ChatAgent_process_message(st, outcome, now) ==
    LET received == State_add_message(st, "user", <<"user text">>, now)
    IN  IF outcome = "response"
        THEN State_add_message(received, "assistant", <<"Echo:", "user text">>, now + 1)
        ELSE IF outcome = "raise"
        THEN State_add_message(received, "system",
                               <<"Error processing message:", "exception">>, now + 1)
        ELSE received

\* number of messages the agent has received (sender "user")
received_count(st) ==
    Cardinality({i \in 1..Len(st.messages) : st.messages[i].role = "user"})

AgentProcessMessage ==
    /\ received_count(state) < MaxTurns
    /\ \E outcome \in HandlerOutcomes :
          /\ state' = ChatAgent_process_message(state, outcome, clock)
          /\ clock' = IF outcome = "none" THEN clock + 1 ELSE clock + 2
    /\ UNCHANGED <<chat_state, chat_input, wpc, gvars, kvars, hvars, pvars>>

NextAgent == AgentProcessMessage

SpecAgent == Init /\ [][NextAgent]_vars

\* ------------------------------------------------------------------ State operations
\* the roles add_message is called with
Roles == {"user", "assistant", "system"}

\* the dictionaries update_metadata is called with
MetadataUpdates ==
    {{[key |-> "topic", value |-> "a"]},
     {[key |-> "topic", value |-> "b"], [key |-> "lang", value |-> "a"]}}

\* BaseAgent.add_message on the agent
StateAddMessage ==
    /\ clock <= MaxStateSteps
    /\ \E role \in Roles :
          state' = State_add_message(state, role, <<"text">>, clock)
    /\ clock' = clock + 1
    /\ spc' = "add_message"
    /\ UNCHANGED <<chat_state, chat_input, wpc, save_calls, save_failed, returned,
                   restored, agent_out, gvars, kvars, hvars>>

\* BaseAgent.update_metadata on the agent
StateUpdateMetadata ==
    /\ clock <= MaxStateSteps
    /\ \E updates \in MetadataUpdates :
          state' = State_update_metadata(state, updates, clock)
    /\ clock' = clock + 1
    /\ spc' = "update_metadata"
    /\ UNCHANGED <<chat_state, chat_input, wpc, save_calls, save_failed, returned,
                   restored, agent_out, gvars, kvars, hvars>>

\* State.from_dict(agent.state.to_dict())
StateRoundTrip ==
    /\ restored' = State_from_dict(State_to_dict(state))
    /\ state' = State_after_round_trip(state)
    /\ spc' = "from_dict"
    /\ UNCHANGED <<chat_state, chat_input, wpc, clock, save_calls, save_failed,
                   returned, agent_out, gvars, kvars, hvars>>

\* ChatAgent.clear_conversation on the agent
ClearConversation ==
    /\ clock <= MaxStateSteps
    /\ state' = clear_conversation(state, clock)
    /\ clock' = clock + 1
    /\ spc' = "clear_conversation"
    /\ UNCHANGED <<chat_state, chat_input, wpc, save_calls, save_failed, returned,
                   restored, agent_out, gvars, kvars, hvars>>

NextState ==
    StateAddMessage \/ StateUpdateMetadata \/ StateRoundTrip \/ ClearConversation

SpecState == Init /\ [][NextState]_vars

\* ------------------------------------------------------------------ process_message
\* the parameters of BaseAgent.add_message and the keyword process_message
\* passes itself: a metadata key with one of these names is passed twice
ReservedKeys == {"role", "content", "message_type"}

\* the keys of the metadata dictionaries process_message is called with
MetadataKeys == {{}, {"topic"}, {"role"}, {"topic", "message_type"}}

\* self.add_message(sender, message, message_type=message_type, **metadata):
\* the call is made when no keyword is given twice, else TypeError
add_message_call_accepted(metadata) == metadata \cap ReservedKeys = {}

\* what ChatAgent.process_message returns, or the exception that leaves it
process_message_result(metadata, outcome) ==
    IF ~add_message_call_accepted(metadata)
    THEN [kind |-> "raised", exception |-> "TypeError", success |-> FALSE]
    ELSE IF outcome = "raise"
    THEN [kind |-> "returned", exception |-> "", success |-> FALSE]
    ELSE [kind |-> "returned", exception |-> "", success |-> TRUE]

\* a call of ChatAgent.process_message with metadata
AgentCall ==
    /\ clock <= MaxStateSteps
    /\ \E metadata \in MetadataKeys, outcome \in HandlerOutcomes :
          /\ state' = IF add_message_call_accepted(metadata)
                      THEN ChatAgent_process_message(state, outcome, clock)
                      ELSE state
          /\ agent_out' = [calls |-> agent_out.calls + 1, handler |-> outcome]
                          @@ process_message_result(metadata, outcome)
    /\ clock' = clock + 2
    /\ spc' = "process_message"
    /\ UNCHANGED <<chat_state, chat_input, wpc, save_calls, save_failed, returned,
                   restored, gvars, kvars, hvars>>

NextProcess == AgentCall \/ ClearConversation

SpecProcess == Init /\ [][NextProcess]_vars

\* ------------------------------------------------------------------ keyed stores
\* ChatAgentService.process_message: the agent of the user id is looked up or
\* created, and processes the message
ServiceProcessMessage ==
    /\ clock <= MaxStoreSteps
    /\ \E user_id \in SessionKeys, outcome \in HandlerOutcomes :
          LET got == get_agent(service_agents, user_id)
          IN  /\ service_agents' =
                    IF got.raised = ""
                    THEN [got.agents EXCEPT
                             ![user_id] = ChatAgent_process_message(@, outcome, clock)]
                    ELSE got.agents
              /\ service_last' = [user_id |-> user_id, raised |-> got.raised]
    /\ clock' = clock + 1
    /\ UNCHANGED <<chat_state, chat_input, wpc, state, conversation_history,
                   gvars, hvars, pvars>>

\* app/chat_agent.process_message on the conversation store: the ChatState of
\* the conversation id is created or looked up and stored, the user's message
\* is added, and the assistant's message when chatbot returned a dict message
StoreProcessMessage ==
    /\ clock <= MaxStoreSteps
    /\ \E given \in {NoConversation, ClientConversation} \cup DOMAIN conversation_history,
          replied \in BOOLEAN :
          LET conversation_id ==
                  IF given = NoConversation THEN new_conversation_id(1, clock) ELSE given
              conversation_state ==
                  IF given = NoConversation THEN <<>>
                  ELSE stored_messages(conversation_history, given)
              received == ChatState_add_message(conversation_state, "user",
                                                <<"user text">>, clock)
          IN  conversation_history' =
                  dict_put(conversation_history, conversation_id,
                           IF replied
                           THEN ChatState_add_message(received, "assistant",
                                                      error_content({"timeout"}), clock)
                           ELSE received)
    /\ clock' = clock + 1
    /\ UNCHANGED <<chat_state, chat_input, wpc, state, service_agents, service_last,
                   gvars, hvars, pvars>>

NextStores == ServiceProcessMessage \/ StoreProcessMessage

SpecStores == Init /\ [][NextStores]_vars

\* ------------------------------------------------------------------ Tool.execute
\* a call of Tool.execute on one of the inputs
InitExecuteCall ==
    /\ InitGraph /\ InitWindows /\ InitFormatter /\ InitFallback /\ InitSessions
    /\ input_data \in ToolInputs
    /\ handler_log = <<>>
    /\ execute_out = [kind |-> "none", exception |-> "", text |-> <<>>, ran |-> FALSE]
    /\ tpc = "call"

\* the body of Tool.execute
ToolExecute ==
    /\ tpc = "call"
    /\ \E outcome \in ExecuteOutcomes :
          /\ execute_out' = Tool_execute(input_data, outcome)
          /\ handler_log' = IF Tool_execute(input_data, outcome).ran
                            THEN Append(handler_log, input_data) ELSE handler_log
    /\ tpc' = "returned"
    /\ UNCHANGED <<input_data, gvars, kvars, wvars, fvars, rvars, svars, pvars>>

NextExecute == ToolExecute

SpecExecute == InitExecuteCall /\ [][NextExecute]_vars

\* ------------------------------------------------------------------ formatting
\* a call of format_tool_result on one of the results
InitFormatCall ==
    /\ InitGraph /\ InitWindows /\ InitExecute /\ InitFallback /\ InitSessions
    /\ fmt_result \in ToolResults
    /\ fmt_name \in ToolNames
    /\ formatted = <<>>
    /\ fpc = "call"

FormatToolResult ==
    /\ fpc = "call"
    /\ formatted' = format_tool_result(fmt_result, fmt_name)
    /\ fpc' = "returned"
    /\ UNCHANGED <<fmt_result, fmt_name, gvars, kvars, wvars, tvars, rvars, svars, pvars>>

NextFormat == FormatToolResult

SpecFormat == InitFormatCall /\ [][NextFormat]_vars

\* ------------------------------------------------------------------ fallback
\* a call of create_response_with_fallback: a content of any length with a
\* history of at most one message, or a content of at most one character
\* with a history of any length
InitFallbackCall ==
    /\ InitGraph /\ InitWindows /\ InitExecute /\ InitFormatter /\ InitSessions
    /\ \E c \in Contents, h \in Histories :
          /\ Len(c) <= 1 \/ Len(h) <= 1
          /\ candidate_message = AIMessage(c, <<>>)
          /\ fallback_window = h
    /\ recovered = AIMessage(<<>>, <<>>)
    /\ rpc = "call"

CreateResponseWithFallback ==
    /\ rpc = "call"
    /\ recovered' = create_response_with_fallback(candidate_message, fallback_window)
    /\ rpc' = "returned"
    /\ UNCHANGED <<candidate_message, fallback_window, gvars, kvars, wvars, tvars, fvars, svars, pvars>>

NextFallback == CreateResponseWithFallback

SpecFallback == InitFallbackCall /\ [][NextFallback]_vars

\* a call of generate_fallback on a result and a capability name, or with
\* no name
InitGenerateCall ==
    /\ InitGraph /\ InitWindows /\ InitExecute /\ InitSessions
    /\ fmt_result \in ToolResults
    /\ fmt_name \in ToolNames \cup {""}
    /\ formatted = <<>>
    /\ fpc = "idle"
    /\ candidate_message = AIMessage(<<>>, <<>>)
    /\ fallback_window = <<>>
    /\ recovered = AIMessage(<<>>, <<>>)
    /\ rpc = "generate"

GenerateFallback ==
    /\ rpc = "generate"
    /\ recovered' = generate_fallback(fmt_result, fmt_name)
    /\ rpc' = "returned"
    /\ UNCHANGED <<candidate_message, fallback_window, gvars, kvars, wvars, tvars, fvars, svars, pvars>>

NextGenerate == GenerateFallback

SpecGenerate == InitGenerateCall /\ [][NextGenerate]_vars

\* ------------------------------------------------------------------ concurrent turns
\* ChatAgentService.process_message / ChatAgent.process_message up to
\* `await handler(...)`: the agent of the key is looked up and the incoming
\* message is added to its State
TurnBegin(t) ==
    /\ turns[t].at = "new"
    /\ \E key \in SessionKeys :
          /\ agents' = session_add_message(agents, key, "user",
                                           <<"message " \o ToString(t)>>, clock)
          /\ turns' = [turns EXCEPT ![t] = [key |-> key, at |-> "handler"]]
    /\ clock' = clock + 1
    /\ UNCHANGED <<chat_state, chat_input, wpc, state, gvars, kvars, tvars, fvars, rvars, pvars>>

\* the handler resumes and ChatAgent.process_message runs to its return: the
\* response is added as assistant message, or the error as system message
TurnEnd(t) ==
    /\ turns[t].at = "handler"
    /\ \E outcome \in HandlerOutcomes :
          agents' =
              IF outcome = "response"
              THEN session_add_message(agents, turns[t].key, "assistant",
                                       <<"Echo:", "message " \o ToString(t)>>, clock)
              ELSE IF outcome = "raise"
              THEN session_add_message(agents, turns[t].key, "system",
                                       <<"Error processing message:", "exception">>, clock)
              ELSE agents
    /\ turns' = [turns EXCEPT ![t].at = "done"]
    /\ clock' = clock + 1
    /\ UNCHANGED <<chat_state, chat_input, wpc, state, gvars, kvars, tvars, fvars, rvars, pvars>>

NextSessions == \E t \in Coroutines : TurnBegin(t) \/ TurnEnd(t)

SpecSessions == Init /\ [][NextSessions]_vars

\* ------------------------------------------------------------------ claims
\* the calls carried by the assistant messages of the current turn scope
scope_calls == calls_of(current_question(messages))

\* how often the model requested (tool_name, a) in this turn
request_count(tool_name, a) ==
    Cardinality({k \in 1..Len(requested) :
                    /\ requested[k].name = tool_name
                    /\ requested[k].args = ModelArgs(a)})

\* how often the handler of tool_name ran on the argument a in this turn
run_count(tool_name, a) ==
    Cardinality({k \in 1..Len(executed) :
                    executed[k].sig = <<tool_name, str(ModelArgs(a))>>})

\* C1: every turn terminates: whatever the model answers, also when it
\* requests the same capability with the same arguments at every round, the
\* controller reaches DONE; the run of the graph is never cut off by the
\* runtime's recursion limit with the turn still going round.
C1_TurnReachesDone == pc # "ABORTED"

\* C2: within one turn scope, the second occurrence of a (capability,
\* arguments) pair of a capability that is not exempt is blocked: no two call
\* requests with the same pair are handed on for dispatch, whether they sit in
\* two assistant messages or in one.
C2_SecondOccurrenceBlocked ==
    \A i, j \in 1..Len(scope_calls) :
        (i < j /\ scope_calls[i].name \notin NEVER_BLOCK_TOOLS)
            => call_signature(scope_calls[i]) # call_signature(scope_calls[j])

\* C3: a blocked request is never passed to a handler, and when the same
\* (search, arguments) request is made three times in a turn scope the handler
\* ran only for the first and the turn has ended with a message instead of
\* another execution.
C3_BlockedNeverExecuted ==
    /\ \A k \in 1..Len(executed) : executed[k].id \notin blocked
    /\ \A a \in 1..MaxArg :
          request_count("tavily_search", a) >= 3
              => /\ run_count("tavily_search", a) = 1
                 /\ pc = "DONE"
                 /\ Last(messages).tool_calls = <<>>
                 /\ truthy(Last(messages).content)

\* C4: a response of the model that requests only exempt capabilities
\* (format_output, clarify_communication) is never blocked and never ends the
\* turn as a detected loop: it is approved for dispatch.
C4_ExemptNeverBlocked ==
    (/\ lastResponse.tool_calls # <<>>
     /\ \A k \in 1..Len(lastResponse.tool_calls) :
            lastResponse.tool_calls[k].name \in NEVER_BLOCK_TOOLS)
        => verdict = "approved"

\* C5: a turn performs at most 5 dispatch cycles: after the 5th the controller
\* forces DONE with a non-empty message and never dispatches a 6th time.
C5_AtMostFiveDispatches ==
    /\ dispatches <= 5
    /\ (dispatches = 5 /\ steps >= 11)
          => (pc = "DONE" /\ truthy(Last(messages).content))

\* C6: if the model's response to the user message carries no call requests,
\* the turn is DONE after exactly one model invocation, without any dispatch,
\* and that response is the final message (and any response without call
\* requests ends the turn with that response as the final message).
C6_NoCallsOneRound ==
    (lastResponse.kind = "message" /\ lastResponse.tool_calls = <<>>)
        => /\ pc = "DONE"
           /\ Last(messages) = AIMessage(lastResponse.content, <<>>)
           /\ invokes = 1 => (/\ dispatches = 0
                              /\ steps = 1
                              /\ Len(messages) = 2
                              /\ messages[1].type = "human")

C6_Witness ==
    /\ pc = "DONE"
    /\ verdict = "final"
    /\ invokes = 1
    /\ lastResponse.content = <<"answer">>

\* the handler of the k-th call of the assistant message at index i ran
handler_ran(i, k) ==
    \E e \in 1..Len(executed) : executed[e].at = i /\ executed[e].k = k

\* the k-th call of the assistant message at index i failed: its capability
\* is not registered or its handler raised
call_failed(i, k) ==
    \/ ~registered(messages[i].tool_calls[k].name)
    \/ \E e \in 1..Len(executed) :
          executed[e].at = i /\ executed[e].k = k /\ executed[e].outcome = "raise"

\* C7: in a dispatched batch a failing call (unknown capability, invalid
\* arguments or an exception in the handler) yields a ToolResult carrying an
\* error and the batch goes on: every call of the batch has its result in the
\* window and every registered capability's handler was run.
C7_FailureIsolated ==
    \A i \in 1..(Len(messages) - 1) :
        \A k \in 1..Len(messages[i].tool_calls) :
            /\ registered(messages[i].tool_calls[k].name) => handler_ran(i, k)
            /\ \E j \in (i + 1)..Len(messages) :
                  /\ j <= i + Len(messages[i].tool_calls)
                  /\ messages[j].type = "tool"
                  /\ messages[j].tool_call_id = messages[i].tool_calls[k].id
                  /\ is_error(messages[j].content) <=> call_failed(i, k)

C7_Witness ==
    \E i \in 1..(Len(messages) - 1) :
        /\ Len(messages[i].tool_calls) = 2
        /\ i + 2 <= Len(messages)
        /\ call_failed(i, 1)
        /\ is_error(messages[i + 1].content)
        /\ handler_ran(i, 2)
        /\ ~is_error(messages[i + 2].content)

\* C8: after the dispatch of an assistant message with call requests r1..rn,
\* exactly n ToolResult messages follow it and the k-th of them carries the
\* call_id (and the capability name) of rk.
C8_ResultsInRequestOrder ==
    \A i \in 1..(Len(messages) - 1) :
        LET n == Len(messages[i].tool_calls)
        IN  n > 0 =>
              /\ i + n <= Len(messages)
              /\ \A k \in 1..n :
                    /\ messages[i + k].type = "tool"
                    /\ messages[i + k].tool_call_id = messages[i].tool_calls[k].id
                    /\ messages[i + k].name = messages[i].tool_calls[k].name
              /\ i + n < Len(messages) => messages[i + n + 1].type # "tool"

C8_Witness ==
    \E i \in 1..(Len(messages) - 1) :
        /\ Len(messages[i].tool_calls) = 2
        /\ i + 2 <= Len(messages)
        /\ messages[i].tool_calls[1].id # messages[i].tool_calls[2].id
        /\ messages[i].tool_calls[1].name # messages[i].tool_calls[2].name
        /\ pc = "MODEL_INVOKE"

\* C9: in every reachable window each ToolResult's result_of (tool_call_id) is
\* the call_id of a call request of an assistant message that precedes it in
\* the window, also when the call is the one chatbot synthesized for a
\* blocked request.
C9_ResultOfPriorCall ==
    \A j \in 1..Len(messages) :
        messages[j].type = "tool" =>
            \E i \in 1..(j - 1) :
                /\ messages[i].type = "ai"
                /\ \E k \in 1..Len(messages[i].tool_calls) :
                      messages[i].tool_calls[k].id = messages[j].tool_call_id

C9_Witness ==
    \E j \in 1..Len(messages) :
        /\ messages[j].type = "tool"
        /\ messages[j].tool_call_id.src = "duplicate_format"
        /\ \E i \in 1..(j - 1) : messages[i].type = "tool" /\ is_error(messages[i].content)

\* C10: a failed tool call does not end the turn: its error is appended as a
\* ToolResult, the controller returns to MODEL_INVOKE and the model is invoked
\* on a window that holds the error.
C10_FailureReturnsToModel ==
    /\ (messages # <<>> /\ Last(messages).type = "tool") => pc = "MODEL_INVOKE"
    /\ \A j \in 1..Len(messages) :
          (messages[j].type = "tool" /\ is_error(messages[j].content))
              => (pc = "MODEL_INVOKE" \/ seenLen >= j)

\* ChatSession.process_message: the text handed to the user for the final
\* state of the graph
final_text(msgs) ==
    IF msgs # <<>> THEN Last(msgs).content
    ELSE <<"I'm not sure how to respond to that.">>

\* C11: when the model call fails the turn ends at once (no further model
\* call, no dispatch, no exception), and the final message is the non-empty
\* message of the failure's category, chosen in the order authentication,
\* timeout, connectivity, generic.
C11_ModelFailureCategorized ==
    lastResponse.kind = "error" =>
        /\ pc = "DONE"
        /\ verdict = "model_error"
        /\ Last(messages).type = "ai"
        /\ Last(messages).tool_calls = <<>>
        /\ truthy(Last(messages).content)
        /\ LET w == lastResponse.error_msg
           IN  Last(messages).content =
                 IF w \cap {"401", "authentication"} # {} THEN AUTH_ERROR_TEXT
                 ELSE IF "timeout" \in w THEN TIMEOUT_ERROR_TEXT
                 ELSE IF "connection" \in w THEN CONNECTION_ERROR_TEXT
                 ELSE GENERIC_ERROR_TEXT

C11_Witness ==
    /\ lastResponse.kind = "error"
    /\ lastResponse.error_msg = {"401", "timeout", "connection"}
    /\ dispatches >= 1
    /\ pc = "DONE"
    /\ Last(messages).content = AUTH_ERROR_TEXT

\* C12: the final text emitted at DONE is never empty, whatever the model
\* answered and whatever the tools returned, also when the model returns
\* empty content after a tool round trip.
C12_FinalTextNotBlank == pc = "DONE" => truthy(final_text(messages))

\* C13: after every append the length of a session's window is at most the
\* cap (20), whichever class holds the window (ChatState of app/chat_agent.py
\* or State of chat_agent/core), the oldest messages being dropped first.
C13_WindowWithinCap ==
    /\ Len(chat_state) <= WINDOW_CAP
    /\ Len(state.messages) <= WINDOW_CAP
    /\ \A i \in 1..Len(chat_state) :
          chat_state[i].timestamp = clock - 1 - (Len(chat_state) - i)

\* C14: eviction never removes the System message: once more messages than
\* the cap were appended, the session's window handed to the model is the
\* System message followed by the most recent messages, within the cap
\* (cap = 20: System plus the 19 most recent).
C14_SystemSurvivesEviction ==
    (wpc = "agent" /\ clock - 1 > WINDOW_CAP) =>
        /\ chat_state[1].role = "system" \/ chat_input[1].role = "system"
        /\ Len(chat_input) <= WINDOW_CAP
        /\ \A i \in 2..Len(chat_input) :
              LET j == Len(chat_state) - Len(chat_input) + i
              IN  /\ j >= 1
                  /\ chat_input[i].role = chat_state[j].role
                  /\ chat_input[i].content = chat_state[j].content

\* the call requests of the current turn: those carried by the messages since
\* the last user message and those of the model's last response
turn_requests ==
    LET carried == scope_calls
        asked == lastResponse.tool_calls
    IN  IF asked # <<>> /\ verdict \in {"replayed", "reformat", "redirected"}
        THEN carried \o asked ELSE carried

args_map(args) == {args[i] : i \in 1..Len(args)}

\* two requests name the same capability and carry equal argument maps
same_request(c1, c2) == c1.name = c2.name /\ args_map(c1.args) = args_map(c2.args)

\* C16: the guard treats two requests as the same exactly when they name the
\* same capability and carry equal argument maps, whatever the order of the
\* keys and whatever the call ids: no request that equals an earlier request
\* of the turn (of a capability that is not exempt) is handed on for dispatch,
\* and a request is blocked only when it equals an earlier request of the turn.
C16_SameRequestByArgumentMap ==
    /\ \A i, j \in 1..Len(scope_calls) :
          (i < j /\ scope_calls[i].name \notin NEVER_BLOCK_TOOLS)
              => ~same_request(scope_calls[i], scope_calls[j])
    /\ verdict \in {"replayed", "reformat", "redirected"}
          => \E i \in 1..Len(scope_calls), k \in 1..Len(lastResponse.tool_calls) :
                /\ lastResponse.tool_calls[k].id \in blocked
                /\ lastResponse.tool_calls[k].id # scope_calls[i].id
                /\ same_request(scope_calls[i], lastResponse.tool_calls[k])

\* how often the capability tool_name is requested by the messages of the
\* current turn that precede the message at index i
name_count_before(tool_name, i) ==
    LET h == last_human_index(messages)
        cs == calls_of(SubSeq(messages, Max(h, 1), i - 1))
    IN  Cardinality({k \in 1..Len(cs) : cs[k].name = tool_name})

blocked_request ==
    lastResponse.tool_calls[CHOOSE k \in 1..Len(lastResponse.tool_calls) :
                               lastResponse.tool_calls[k].id \in blocked]

\* positions <<i, k>> of the requests of the window the model saw that have
\* the capability and arguments of the request c
earlier_requests(c) ==
    {p \in (1..seenLen) \X (1..MaxBatch + 1) :
        /\ p[2] <= Len(messages[p[1]].tool_calls)
        /\ call_signature(messages[p[1]].tool_calls[p[2]]) = call_signature(c)}

\* the most recent of them
latest_request(c) ==
    LET p == CHOOSE q \in earlier_requests(c) :
                \A r \in earlier_requests(c) :
                    r[1] < q[1] \/ (r[1] = q[1] /\ r[2] <= q[2])
    IN  messages[p[1]].tool_calls[p[2]]

\* the ToolResults of the window the model saw that belong to the call id
results_of(id) ==
    {j \in 1..seenLen : messages[j].type = "tool" /\ messages[j].tool_call_id = id}

\* C18: a blocked request is answered from the ToolResult that belongs to the
\* most recent earlier request with the same capability and arguments, also
\* when that request was one of several of its assistant message; the generic
\* redirect message is emitted only when the window holds no such ToolResult.
C18_ReplaysResultOfSameRequest ==
    (verdict \in {"replayed", "reformat", "redirected"} /\ Len(messages) = seenLen + 1) =>
        LET R == results_of(latest_request(blocked_request).id)
        IN  /\ verdict = "replayed"
                  => \E j \in R : Last(messages).content = messages[j].content
            /\ verdict = "reformat"
                  => \E j \in R :
                        Last(messages).tool_calls[1].args[1].s = messages[j].content
            /\ verdict = "redirected" => R = {}

\* the duplicate check allows the request c of the model's last response
guard_allows(c) ==
    \/ c.name \in NEVER_BLOCK_TOOLS
    \/ call_signature(c) \notin previous_calls(SubSeq(messages, 1, seenLen))

\* C19: when the model's response carries several call requests and the
\* guard blocks one of them, the requests of that response that the guard
\* allows are still executed: when the turn is DONE each of them has its
\* ToolResult in the window.
C19_AllowedSiblingsExecuted ==
    (pc = "DONE" /\ verdict \in {"replayed", "redirected"}) =>
        \A k \in 1..Len(lastResponse.tool_calls) :
            guard_allows(lastResponse.tool_calls[k])
                => \E j \in 1..Len(messages) :
                      /\ messages[j].type = "tool"
                      /\ messages[j].tool_call_id = lastResponse.tool_calls[k].id

C21_InvalidArgumentsYieldErrorResult ==
    (tpc = "returned" /\ ~input_model_accepts(input_data))
        => /\ handler_log = <<>>
           /\ execute_out.kind = "return"

\* C22: a result that carries an error is rendered as exactly
\* "Error from {capability}: {message}", whatever other fields (data, status,
\* message) the result has.
C22_ErrorRenderingWins ==
    (fpc = "returned" /\ fmt_result.type = "dict" /\ has_key(fmt_result, "error"))
        => formatted = <<"Error from ", fmt_name, ": ">>
                       \o dict_get(fmt_result, "error").text

\* an error result that also has data, status and message was formatted
C22_Witness ==
    /\ fpc = "returned"
    /\ fmt_result.type = "dict"
    /\ has_key(fmt_result, "error")
    /\ has_key(fmt_result, "data")
    /\ has_key(fmt_result, "status")
    /\ has_key(fmt_result, "message")
    /\ formatted = <<"Error from ", fmt_name, ": ", "timeout">>

\* C23: whatever the result, the text the formatter returns has at most
\* 2000 characters.
C23_FormattedWithinLimit ==
    fpc = "returned" => chars(formatted) <= 2000

\* the lines of a text: the runs of tokens between two "\n"
RECURSIVE lines_of(_)
lines_of(text) ==
    IF ~contains(text, "\n") THEN <<text>>
    ELSE LET at == CHOOSE i \in 1..Len(text) :
                       text[i] = "\n" /\ \A j \in 1..(i - 1) : text[j] # "\n"
         IN  <<SubSeq(text, 1, at - 1)>> \o lines_of(SubSeq(text, at + 1, Len(text)))

\* the bullet lines of a text, in order
bullet_lines(text) ==
    SelectSeq(lines_of(text),
              LAMBDA line : line # <<>> /\ line[1] \in {"- ", "  * "})

\* the lines of a text that say how many entries were left out
suffix_lines(text) ==
    SelectSeq(lines_of(text), LAMBDA line : line # <<>> /\ line[1] = "  ... and ")

\* a key-value structure whose values are no dicts and no lists
flat(v) ==
    /\ v.type = "dict"
    /\ \A i \in 1..Len(v.items) : v.items[i].value.type \in {"str", "none"}

\* the key-value structure the formatter renders: the data field when it is
\* a dict, else the result
rendered_structure(result) ==
    IF has_key(result, "data") /\ dict_get(result, "data").type = "dict"
    THEN dict_get(result, "data")
    ELSE result

\* C24: a flat key-value result (no error, no specialized renderer) is
\* rendered as one bullet line for each of its first 5 entries, in the
\* result's order, followed by a line that says how many entries were left
\* out exactly when it has more than 5 entries.
C24_FirstFiveEntriesAndSuffix ==
    (/\ fpc = "returned"
     /\ fmt_result.type = "dict"
     /\ ~has_key(fmt_result, "error")
     /\ fmt_name # "skill_evaluator"
     /\ flat(rendered_structure(fmt_result)))
        => LET entries == rendered_structure(fmt_result).items
               bullets == bullet_lines(formatted)
               suffix == suffix_lines(formatted)
           IN  /\ Len(bullets) = Min(5, Len(entries))
               /\ \A i \in 1..Len(bullets) : bullets[i][2] = entries[i].key
               /\ Len(entries) > 5
                    => suffix = <<<<"  ... and ", ToString(Len(entries) - 5), " more fields">>>>
               /\ Len(entries) <= 5 => suffix = <<>>

\* the result carries an explicit error
error_flag(result) == result.type = "dict" /\ has_key(result, "error")

\* the result is rendered by the error rule or by the specialized renderer
error_or_specialized(result, name) ==
    /\ result.type = "dict"
    /\ \/ has_key(result, "error")
       \/ ~has_key(result, "data") /\ name = "skill_evaluator"

\* C25: on the error and specialized-renderer paths the formatted text
\* determines the capability name and the error flag: no other result of
\* these paths with another capability name or another error flag is
\* formatted to the same text.
C25_FormattingLossless ==
    (fpc = "returned" /\ error_or_specialized(fmt_result, fmt_name))
        => \A other \in ToolResults, name \in ToolNames :
              (/\ error_or_specialized(other, name)
               /\ format_tool_result(other, name) = formatted)
                  => /\ name = fmt_name
                     /\ error_flag(other) = error_flag(fmt_result)

\* a content made of backticks only
fence(content) ==
    content # <<>> /\ \A i \in 1..Len(content) : content[i] = "^"

\* a content is degenerate when it is empty, holds whitespace only, or is a
\* fence of one or three backticks with nothing but whitespace around it
degenerate(content) ==
    \/ content = <<>>
    \/ \A i \in 1..Len(content) : content[i] \in Whitespace
    \/ \E i, j \in 1..Len(content) :
          /\ i <= j
          /\ \A k \in 1..Len(content) : (k < i \/ k > j) => content[k] \in Whitespace
          /\ fence(SubSeq(content, i, j))
          /\ j - i + 1 \in {1, 3}

\* C26: create_response_with_fallback replaces the candidate message exactly
\* when its content is degenerate (empty, whitespace only, or an empty code
\* fence); every other candidate is returned unchanged.
C26_FallbackOnlyForDegenerate ==
    rpc = "returned"
        => /\ is_empty_response(candidate_message) <=> degenerate(candidate_message.content)
           /\ ~degenerate(candidate_message.content) => recovered = candidate_message
           /\ degenerate(candidate_message.content) => recovered # candidate_message

\* a fence after a newline was taken as degenerate and replaced by the apology
C26_Witness ==
    /\ rpc = "returned"
    /\ candidate_message.content = <<"\n", "^", "^", "^">>
    /\ fallback_window = <<>>
    /\ recovered.content = APOLOGY_TEXT

\* the ToolMessages with a content among the last 3 messages of the window,
\* by position
recent_results(msgs) ==
    {i \in Max(1, Len(msgs) - 2)..Len(msgs) :
        msgs[i].type = "tool" /\ truthy(msgs[i].content)}

\* the position of the most recent of them
latest_result(msgs) ==
    CHOOSE i \in recent_results(msgs) : \A j \in recent_results(msgs) : j <= i

\* C27: for a degenerate candidate the recovered message is built from the
\* most recent ToolMessage among the last 3 messages whenever there is one,
\* whatever messages follow it, and it is the generic apology only when the
\* last 3 messages hold no ToolMessage.
C27_RecoversFromLatestResult ==
    (rpc = "returned" /\ is_empty_response(candidate_message))
        => IF recent_results(fallback_window) # {}
           THEN recovered =
                    generate_fallback(
                        StrValue(fallback_window[latest_result(fallback_window)].content),
                        fallback_window[latest_result(fallback_window)].name)
                /\ recovered.content # APOLOGY_TEXT
           ELSE recovered.content = APOLOGY_TEXT

\* C28: the message generate_fallback builds from a tool result and a
\* capability name is "Based on the {capability} results:" followed by the
\* formatted result, and the content of the message it returns is never
\* empty, with or without a tool result.
C28_RecoveredNamesCapabilityAndData ==
    rpc = "returned" =>
        /\ truthy(recovered.content)
        /\ (value_truthy(fmt_result) /\ fmt_name # "")
              => /\ SubSeq(recovered.content, 1, 3)
                     = <<"Based on the ", fmt_name, " results:">>
                 /\ SubSeq(recovered.content, 5, Len(recovered.content))
                     = format_tool_result(fmt_result, fmt_name)

\* the fallback for the data of the weather capability names the capability
\* and holds the formatted entries
C28_Witness ==
    /\ rpc = "returned"
    /\ fmt_name = "weather"
    /\ fmt_result = DictValue(<<Entry("status", StrValue(<<"success">>)),
                                Entry("data", DictValue(Fields(2, FALSE)))>>)
    /\ contains(recovered.content, "weather")
    /\ contains(recovered.content, "v2")

\* the coroutines that have begun a turn for the key and have not returned
turns_in_flight(key) ==
    {t \in Coroutines : turns[t].key = key /\ turns[t].at = "handler"}

stepping == {t \in Coroutines : turns'[t] # turns[t]}

C31_CancelledTurnCommitsNothing ==
    [][wpc = "disconnected" => chat_state' = chat_state]_vars

\* chat_with_ai, "Extract tools used": the names of the tool calls of the
\* messages of the streamed events, each name once, in order of appearance
RECURSIVE tools_used_from(_, _)
tools_used_from(calls, tools_used) ==
    IF calls = <<>> THEN tools_used
    ELSE IF \E i \in 1..Len(tools_used) : tools_used[i] = Head(calls).name
    THEN tools_used_from(Tail(calls), tools_used)
    ELSE tools_used_from(Tail(calls), Append(tools_used, Head(calls).name))

tools_used(msgs) == tools_used_from(calls_of(msgs), <<>>)

\* C32: the capability names returned with the final text are exactly the
\* names of the capabilities whose handlers ran during the turn.
C32_ToolsUsedAreExecuted ==
    pc = "DONE" =>
        {tools_used(messages)[i] : i \in 1..Len(tools_used(messages))}
            = {executed[k].name : k \in 1..Len(executed)}

\* a step in which process_message returns
turn_returns == wpc # "idle" /\ wpc' = "idle"

\* C33: persistence is triggered once per turn, at the end of the turn and
\* not before: the step in which a turn returns its final text makes exactly
\* one save call, and no other step makes one; and a failed save call leaves
\* the returned text the one that was added to the window.
C33_PersistedOncePerTurn ==
    [][/\ save_calls' = IF turn_returns THEN save_calls + 1 ELSE save_calls
       /\ (turn_returns /\ save_failed') => returned'.response = Last(chat_state').content]_vars

\* index of the latest assistant message of a window, 0 when there is none
latest_assistant(msgs) ==
    LET A == {i \in 1..Len(msgs) : msgs[i].type = "ai"}
    IN  IF A = {} THEN 0 ELSE CHOOSE i \in A : \A j \in A : j <= i

\* the call requests of the latest assistant message that have no ToolMessage
\* with their id after it
unanswered_calls(msgs) ==
    LET a == latest_assistant(msgs)
    IN  IF a = 0 THEN {}
        ELSE {k \in 1..Len(msgs[a].tool_calls) :
                ~\E j \in (a + 1)..Len(msgs) :
                    /\ msgs[j].type = "tool"
                    /\ msgs[j].tool_call_id = msgs[a].tool_calls[k].id}

\* C34: the model is never called while a call request of the latest
\* assistant message has no result in the window: a step that calls the model
\* starts from a window with every request answered, and the step from the
\* tools node back to the chatbot node ends in such a window.
C34_ModelCalledWithAllResults ==
    [][/\ invokes' > invokes => unanswered_calls(messages) = {}
       /\ (pc = "TOOL_DISPATCH" /\ pc' = "MODEL_INVOKE")
             => unanswered_calls(messages') = {}]_vars

\* the model was called a second time after a batch of two calls whose
\* second handler failed: both results are in the window it was called with
C34_Witness ==
    /\ invokes = 2
    /\ seenLen = 4
    /\ Len(messages[2].tool_calls) = 2
    /\ messages[3].type = "tool" /\ ~is_error(messages[3].content)
    /\ messages[4].type = "tool" /\ is_error(messages[4].content)
    /\ messages[4].tool_call_id = messages[2].tool_calls[2].id

\* the window `new` continues the window `old`: what is left of `old` after
\* dropping some of its oldest messages is the beginning of `new`
continues(old, new) ==
    \E k \in 0..Len(old) :
        /\ Len(new) >= Len(old) - k
        /\ SubSeq(new, 1, Len(old) - k) = SubSeq(old, k + 1, Len(old))
        /\ (k > 0 => Len(new) = WINDOW_CAP)

\* C35: message history is append-only: a step that adds a message to the
\* State leaves the earlier messages as they were and in their order, a step
\* that adds one to the ChatState leaves them so up to eviction, and
\* serialising and deserialising the State changes no message.
C35_HistoryAppendOnly ==
    [][/\ spc' = "add_message" =>
             SubSeq(state'.messages, 1, Len(state.messages)) = state.messages
       /\ continues(chat_state, chat_state')
       /\ spc' = "from_dict" => state'.messages = state.messages]_vars

\* C36: a result without an error key of the capability that has a
\* specialized renderer (skill_evaluator) is rendered by that renderer,
\* whatever other keys the result has.
C36_SpecializedRendererUsed ==
    (/\ fpc = "returned"
     /\ fmt_name = "skill_evaluator"
     /\ fmt_result.type = "dict"
     /\ ~has_key(fmt_result, "error"))
        => formatted = format_skill_evaluation(fmt_result)

\* C37: a session is created on the first message for its key and kept: after
\* a message for a key the store holds a session for the key, and no step
\* deletes a session or replaces its window by one that does not continue it.
C37_SessionCreatedAndKept ==
    [][/\ service_last'.user_id # "" =>
             /\ service_last'.raised = ""
             /\ service_last'.user_id \in DOMAIN service_agents'
       /\ \A id \in DOMAIN service_agents :
             /\ id \in DOMAIN service_agents'
             /\ SubSeq(service_agents'[id].messages, 1, Len(service_agents[id].messages))
                    = service_agents[id].messages
       /\ \A id \in DOMAIN conversation_history :
             /\ id \in DOMAIN conversation_history'
             /\ continues(conversation_history[id], conversation_history'[id])]_vars

\* positions of the system-role messages of a window
system_positions(msgs) == {i \in 1..Len(msgs) : msgs[i].role = "system"}

\* C38: clear_conversation leaves exactly the system-role messages of the
\* window, in their original order, removes every other message, and leaves
\* the metadata unchanged.
C38_ClearKeepsSystemMessages ==
    [][spc' = "clear_conversation" =>
          /\ Len(state'.messages) = Cardinality(system_positions(state.messages))
          /\ \A i \in system_positions(state.messages) :
                state'.messages[Cardinality({j \in system_positions(state.messages) :
                                                j <= i})]
                    = state.messages[i]
          /\ state'.metadata = state.metadata]_vars

\* the conversation was cleared when it held a system, a user and a second
\* system message (the window serialised before) and metadata: the two system
\* messages are left
C38_Witness ==
    /\ spc = "clear_conversation"
    /\ Len(restored.messages) = 3
    /\ restored.messages[2].role = "user"
    /\ Len(state.messages) = 2
    /\ state.messages[2].content = restored.messages[3].content
    /\ state.messages[2].timestamp.at = restored.messages[3].timestamp.at
    /\ state.metadata # {}

\* the messages a step added to the State of the agent
added_messages == SubSeq(state'.messages, Len(state.messages) + 1, Len(state'.messages))

\* C39: every call of ChatAgent.process_message appends the incoming message
\* first; when the handler returned a response exactly one assistant message
\* follows it; when the handler raised, one system error message follows it
\* and no assistant message, and the call returns an error response with
\* success false; the call never raises.
C39_ProcessMessageAppendsAndReturns ==
    [][agent_out'.calls # agent_out.calls =>
          /\ SubSeq(state'.messages, 1, Len(state.messages)) = state.messages
          /\ Len(added_messages) >= 1
          /\ added_messages[1].role = "user"
          /\ agent_out'.kind = "returned"
          /\ agent_out'.handler = "response" =>
                /\ Len(added_messages) = 2
                /\ added_messages[2].role = "assistant"
          /\ agent_out'.handler = "raise" =>
                /\ Len(added_messages) = 2
                /\ added_messages[2].role = "system"
                /\ ~agent_out'.success]_vars

\* C40: State serialisation round-trips: after State.from_dict(state.to_dict())
\* the State returned equals the state (same messages and metadata), and the
\* messages of the original state are what they were before the round trip.
C40_RoundTripLeavesStateEqualAndUnchanged ==
    [][spc' = "from_dict" =>
          /\ State_eq(restored', state')
          /\ state'.messages = state.messages
          /\ state'.metadata = state.metadata]_vars

====
